---- MODULE Spec2Model ----
(***************************************************************************)
(* SmartHR MCP server: the request models (pydantic) and the API client    *)
(* (SmartHRClient) of smarthr_mcp_server/smarthr_client.py.                *)
(*                                                                         *)
(* One client call is one step: from the idle state an operation is        *)
(* invoked with caller-chosen arguments, the remote answers each request   *)
(* the operation issues with a nondeterministic response, and the state    *)
(* records the requests sent, the responses received and the outcome       *)
(* (a returned value or a raised exception).  Complete hands the outcome   *)
(* to the caller and the client is idle again.                             *)
(*                                                                         *)
(* The server module (smarthr_mcp_server/server.py) builds one client when *)
(* it is loaded (Startup) and defines the tools, which build the request   *)
(* model and call the client.  The environment is read, by os.getenv, each *)
(* time a client is built.                                                 *)
(***************************************************************************)
EXTENDS Integers, Sequences, FiniteSets, TLC

\* The field names of the records of this module.  TLC keeps the fields of a
\* record in the order in which it first met their names; every record below
\* writes its fields in this order, so each is built in normal form.
RecordFields ==
    [api_key |-> TRUE, authorization |-> TRUE, base_url |-> TRUE,
     content_type |-> TRUE, crew_id |-> TRUE, data |-> TRUE, dependents |-> TRUE,
     discontinued_date |-> TRUE, doc |-> TRUE, env |-> TRUE, errors |-> TRUE,
     exc |-> TRUE, fields_set |-> TRUE, headers |-> TRUE, id |-> TRUE, json |-> TRUE, keys |-> TRUE, kind |-> TRUE,
     kw |-> TRUE, message |-> TRUE, method |-> TRUE, num |-> TRUE, ok |-> TRUE,
     page |-> TRUE, params |-> TRUE, path |-> TRUE, per_page |-> TRUE,
     q |-> TRUE, query |-> TRUE, resp |-> TRUE, status |-> TRUE, str |-> TRUE,
     type |-> TRUE, value |-> TRUE, values |-> TRUE]

VARIABLES today, pc, op, args, sent, got, outcome, smarthr_client

vars == <<today, pc, op, args, sent, got, outcome, smarthr_client>>

(***************************************************************************)
(* Bounds of the model.                                                    *)
(***************************************************************************)
\* how many days the clock may advance
MaxTicks == 1
\* how many fields of a caller's dict differ from the well-formed base dict
MaxEdits == 2

(***************************************************************************)
(* Python values.  A value is a record of one shape so that any two values *)
(* can be compared: type is the type tag, str the characters of a str and  *)
(* num the number of an int (or 0/1 of a bool).                            *)
(***************************************************************************)
None_ == [num |-> 0, str |-> <<>>, type |-> "none"]
Absent == [num |-> 0, str |-> <<>>, type |-> "absent"]
Str(chars) == [num |-> 0, str |-> chars, type |-> "str"]
Num(i) == [num |-> i, str |-> <<>>, type |-> "int"]
Bool(b) == [num |-> IF b THEN 1 ELSE 0, str |-> <<>>, type |-> "bool"]
\* a dict without keys
EmptyDict == [k \in {} |-> None_]

\* Python truthiness: bool(v)
Truthy(v) ==
    CASE v.type = "none" -> FALSE
      [] v.type = "str" -> v.str # <<>>
      [] v.type = "int" -> v.num # 0
      [] v.type = "bool" -> v.num # 0
      [] OTHER -> FALSE

\* c in v, for a one-character c and a str v
Contains(v, c) == \E i \in DOMAIN v.str : v.str[i] = c

(***************************************************************************)
(* Dates: datetime.strptime(v, '%Y-%m-%d').date() and date ordinals.       *)
(***************************************************************************)
Digits == {"0", "1", "2", "3", "4", "5", "6", "7", "8", "9"}

DigitVal(c) ==
    CASE c = "0" -> 0 [] c = "1" -> 1 [] c = "2" -> 2 [] c = "3" -> 3
      [] c = "4" -> 4 [] c = "5" -> 5 [] c = "6" -> 6 [] c = "7" -> 7
      [] c = "8" -> 8 [] c = "9" -> 9

IsLeap(y) == (y % 4 = 0) /\ ((y % 100 # 0) \/ (y % 400 = 0))

DaysInMonth(y, m) ==
    IF m = 2 THEN (IF IsLeap(y) THEN 29 ELSE 28)
    ELSE IF m \in {4, 6, 9, 11} THEN 30 ELSE 31

RECURSIVE DaysBeforeMonth(_, _)
DaysBeforeMonth(y, m) ==
    IF m <= 1 THEN 0 ELSE DaysBeforeMonth(y, m - 1) + DaysInMonth(y, m - 1)

DaysBeforeYear(y) ==
    (y - 1) * 365 + ((y - 1) \div 4) - ((y - 1) \div 100) + ((y - 1) \div 400)

\* date(y, m, d).toordinal()
ToOrdinal(y, m, d) == DaysBeforeYear(y) + DaysBeforeMonth(y, m) + d

\* the value strptime gives for a string that does not match or is no date
NoDate == 0 - 1

\* the number written by the digits chars[a..b]
RECURSIVE NumberAt(_, _, _)
NumberAt(chars, a, b) ==
    IF b < a THEN 0 ELSE NumberAt(chars, a, b - 1) * 10 + DigitVal(chars[b])

AllDigits(chars, a, b) == \A i \in a..b : chars[i] \in Digits

\* datetime.strptime(chars, '%Y-%m-%d').date().toordinal(), or NoDate when
\* strptime raises ValueError.  %Y is exactly four digits; %m and %d are one
\* or two digits (a leading zero is optional); the date must exist.
Strptime(chars) ==
    LET n == Len(chars)
        second == IF n >= 7 /\ chars[7] = "-" THEN 7 ELSE 8
    IN  IF n < 8 \/ n > 10 THEN NoDate
        ELSE IF chars[5] # "-" \/ second > n - 1 THEN NoDate
        ELSE IF chars[second] # "-" THEN NoDate
        ELSE IF ~(AllDigits(chars, 1, 4) /\ AllDigits(chars, 6, second - 1)
                  /\ AllDigits(chars, second + 1, n)) THEN NoDate
        ELSE IF (second - 6) \notin {1, 2} \/ (n - second) \notin {1, 2} THEN NoDate
        ELSE LET y == NumberAt(chars, 1, 4)
                 m == NumberAt(chars, 6, second - 1)
                 d == NumberAt(chars, second + 1, n)
             IN  IF y < 1 \/ m < 1 \/ m > 12 THEN NoDate
                 ELSE IF d < 1 \/ d > DaysInMonth(y, m) THEN NoDate
                 ELSE ToOrdinal(y, m, d)

(***************************************************************************)
(* Request models.  A caller's dict is a function from the supplied keys   *)
(* to values; a model instance holds the set of explicitly supplied fields *)
(* (__fields_set__) and a value for every declared field.                  *)
(*                                                                         *)
(* DependentCreateRequest/DependentPartialUpdateRequest and                *)
(* CrewCreateRequest declare many fields of identical shape; the model     *)
(* keeps the required ones, the validated ones and one representative of   *)
(* each remaining shape (Optional[str] = None: job, emp_ins_qualified_at;  *)
(* Optional[str] = "supported": social_insurance_support_type).            *)
(***************************************************************************)
LivingTogether ==
    <<"l","i","v","i","n","g","_","t","o","g","e","t","h","e","r">>
LivingSeparately ==
    <<"l","i","v","i","n","g","_","s","e","p","a","r","a","t","e","l","y">>
LiveTogetherType == {LivingTogether, LivingSeparately}

Male == <<"m","a","l","e">>
Female == <<"f","e","m","a","l","e">>
Supported == <<"s","u","p","p","o","r","t","e","d">>

DepartmentFields == {"name", "position", "code", "parent_id"}
DependentFields ==
    {"relation_id", "last_name", "first_name", "birth_at", "gender",
     "live_together_type", "job", "social_insurance_support_type"}
CrewFields == {"last_name", "birth_at", "emp_ins_qualified_at"}

\* the declared fields of a model class
Fields(m) ==
    CASE m \in {"DepartmentCreateRequest", "DepartmentUpdateRequest",
                "DepartmentPartialUpdateRequest"} -> DepartmentFields
      [] m = "DepartmentDiscontinueRequest" -> {"discontinued_date"}
      [] m \in {"JobTitleCreateRequest", "JobTitlePartialUpdateRequest"} ->
             {"name", "rank", "code"}
      [] m = "JobTitleUpdateRequest" -> {"name", "rank"}
      [] m \in {"EmploymentTypeCreateRequest",
                "EmploymentTypePartialUpdateRequest"} -> {"name", "code"}
      [] m = "EmploymentTypeUpdateRequest" -> {"name"}
      [] m \in {"GradeCreateRequest", "GradeUpdateRequest",
                "GradePartialUpdateRequest"} -> {"name", "rank"}
      [] m \in {"JobCategoryCreateRequest", "JobCategoryUpdateRequest",
                "JobCategoryPartialUpdateRequest"} -> {"name"}
      [] m \in {"DependentCreateRequest", "DependentUpdateRequest",
                "DependentPartialUpdateRequest"} -> DependentFields
      [] m \in {"CrewCreateRequest", "CrewUpdateRequest"} -> CrewFields

\* GradePartialUpdateRequest declaring name without Optional
Required_GradePartialName(m) ==
    CASE m \in {"DepartmentCreateRequest", "DepartmentUpdateRequest"} -> {"name"}
      [] m = "DepartmentDiscontinueRequest" -> {"discontinued_date"}
      [] m \in {"JobTitleCreateRequest", "JobTitleUpdateRequest",
                "GradeCreateRequest", "GradeUpdateRequest"} -> {"name", "rank"}
      [] m \in {"EmploymentTypeCreateRequest", "EmploymentTypeUpdateRequest",
                "JobCategoryCreateRequest", "JobCategoryUpdateRequest",
                "GradePartialUpdateRequest"} -> {"name"}
      [] m \in {"DependentCreateRequest", "DependentUpdateRequest",
                "DependentPartialUpdateRequest"} ->
             {"relation_id", "last_name", "first_name", "birth_at", "gender",
              "live_together_type"}
      [] OTHER -> {}

\* the fields declared without Optional and without a default
Required(m) ==
    CASE m \in {"DepartmentCreateRequest", "DepartmentUpdateRequest"} -> {"name"}
      [] m = "DepartmentDiscontinueRequest" -> {"discontinued_date"}
      [] m \in {"JobTitleCreateRequest", "JobTitleUpdateRequest",
                "GradeCreateRequest", "GradeUpdateRequest"} -> {"name", "rank"}
      [] m \in {"EmploymentTypeCreateRequest", "EmploymentTypeUpdateRequest",
                "JobCategoryCreateRequest", "JobCategoryUpdateRequest"} -> {"name"}
      [] m \in {"DependentCreateRequest", "DependentUpdateRequest",
                "DependentPartialUpdateRequest"} ->
             {"relation_id", "last_name", "first_name", "birth_at", "gender",
              "live_together_type"}
      [] OTHER -> {}

\* the declared type of a field
FieldType(m, f) ==
    CASE f \in {"rank", "position"} -> "int"
      [] f = "live_together_type" -> "LiveTogetherType"
      [] OTHER -> "str"

\* the declared default of a field that is not required
Default(m, f) ==
    IF m \in {"DependentCreateRequest", "DependentUpdateRequest"}
       /\ f = "social_insurance_support_type"
    THEN Str(Supported)
    ELSE None_

\* pydantic's type check of a supplied value
TypeOk(m, f, v) ==
    IF v.type = "none" THEN f \notin Required(m)
    ELSE CASE FieldType(m, f) = "int" -> v.type = "int"
           [] FieldType(m, f) = "LiveTogetherType" ->
                  v.type = "str" /\ v.str \in LiveTogetherType
           [] OTHER -> v.type = "str"

(***************************************************************************)
(* The validators.  Each gives "" when it returns v and the reason when it *)
(* raises ValueError.                                                      *)
(***************************************************************************)
DepartmentCreateRequest_validate_name(v) ==
    IF Contains(v, "/") THEN "no_slash" ELSE ""

DepartmentUpdateRequest_validate_name(v) ==
    IF Contains(v, "/") THEN "no_slash" ELSE ""

\* a partial-update model that lost its name validator
validate_name_NoCheck(v) == ""

DepartmentPartialUpdateRequest_validate_name(v) ==
    IF v.type # "none" /\ Contains(v, "/") THEN "no_slash" ELSE ""

\* the rank check off by one at the lower bound (<= for <)
validate_rank_OffByOne(v) ==
    IF v.num <= 1 \/ v.num > 99999 THEN "rank_range" ELSE ""

JobTitleCreateRequest_validate_rank(v) ==
    IF v.num < 1 \/ v.num > 99999 THEN "rank_range" ELSE ""

JobTitleUpdateRequest_validate_rank(v) ==
    IF v.num < 1 \/ v.num > 99999 THEN "rank_range" ELSE ""

JobTitlePartialUpdateRequest_validate_rank(v) ==
    IF v.type # "none" /\ (v.num < 1 \/ v.num > 99999) THEN "rank_range" ELSE ""

GradeCreateRequest_validate_rank(v) ==
    IF v.num < 1 \/ v.num > 99999 THEN "rank_range" ELSE ""

GradeUpdateRequest_validate_rank(v) ==
    IF v.num < 1 \/ v.num > 99999 THEN "rank_range" ELSE ""

GradePartialUpdateRequest_validate_rank(v) ==
    IF v.type # "none" /\ (v.num < 1 \/ v.num > 99999) THEN "rank_range" ELSE ""

\* the validator with the comparison the wrong way round (< for >)
validate_discontinued_date_Reversed(v, now) ==
    LET d == Strptime(v.str)
    IN  IF d = NoDate \/ d < now THEN "format" ELSE ""

\* now is datetime.now().date() as an ordinal.  The ValueError raised for a
\* date after now is raised inside the try block and so is caught by the
\* except clause, which raises the format message in its place.
DepartmentDiscontinueRequest_validate_discontinued_date(v, now) ==
    LET d == Strptime(v.str)
        inTry == IF d = NoDate THEN "value_error"
                 ELSE IF d > now THEN "past_only"
                 ELSE ""
    IN  IF inTry # "" THEN "format" ELSE ""

\* a gender validator that accepts anything
validate_gender_NoCheck(v) == ""

DependentCreateRequest_validate_gender(v) ==
    IF v.str \notin {Male, Female} THEN "gender" ELSE ""

CrewCreateRequest_validate_date(v) ==
    IF v.type # "none" /\ Strptime(v.str) = NoDate THEN "format" ELSE ""

\* the validator a model class registers for a field ("" when it has none)
Validator(m, f, v, now) ==
    CASE m = "DepartmentCreateRequest" /\ f = "name" ->
             DepartmentCreateRequest_validate_name(v)
      [] m = "DepartmentUpdateRequest" /\ f = "name" ->
             DepartmentUpdateRequest_validate_name(v)
      [] m = "DepartmentPartialUpdateRequest" /\ f = "name" ->
             DepartmentPartialUpdateRequest_validate_name(v)
      [] m = "JobTitleCreateRequest" /\ f = "rank" ->
             JobTitleCreateRequest_validate_rank(v)
      [] m = "JobTitleUpdateRequest" /\ f = "rank" ->
             JobTitleUpdateRequest_validate_rank(v)
      [] m = "JobTitlePartialUpdateRequest" /\ f = "rank" ->
             JobTitlePartialUpdateRequest_validate_rank(v)
      [] m = "GradeCreateRequest" /\ f = "rank" ->
             GradeCreateRequest_validate_rank(v)
      [] m = "GradeUpdateRequest" /\ f = "rank" ->
             GradeUpdateRequest_validate_rank(v)
      [] m = "GradePartialUpdateRequest" /\ f = "rank" ->
             GradePartialUpdateRequest_validate_rank(v)
      [] m = "DepartmentDiscontinueRequest" /\ f = "discontinued_date" ->
             DepartmentDiscontinueRequest_validate_discontinued_date(v, now)
      [] m \in {"DependentCreateRequest", "DependentUpdateRequest"}
         /\ f = "gender" ->
             DependentCreateRequest_validate_gender(v)
      [] m \in {"CrewCreateRequest", "CrewUpdateRequest"} /\ f = "birth_at" ->
             CrewCreateRequest_validate_date(v)
      [] OTHER -> ""

\* the violation of one field of a caller's dict ("" when there is none)
FieldError(m, data, f, now) ==
    IF f \notin DOMAIN data
    THEN (IF f \in Required(m) THEN "missing" ELSE "")
    ELSE IF ~TypeOk(m, f, data[f]) THEN "type"
    ELSE IF data[f].type = "none" THEN ""
    ELSE Validator(m, f, data[f], now)

\* Model(**data): the instance, or the ValidationError with every violated field
Construct(m, data, now) ==
    LET bad == {f \in Fields(m) : FieldError(m, data, f, now) # ""}
    IN  [errors |-> [f \in bad |-> FieldError(m, data, f, now)],
         fields_set |-> DOMAIN data,
         ok |-> bad = {},
         values |-> [f \in Fields(m) |->
                    IF f \in DOMAIN data THEN data[f] ELSE Default(m, f)]]

\* dict() that drops exclude_none
Dict_KeepNone(inst, exclude_unset, exclude_none) ==
    LET keep == {f \in DOMAIN inst.values :
                    exclude_unset => f \in inst.fields_set}
    IN  [f \in keep |-> inst.values[f]]

\* BaseModel.dict(exclude_unset=..., exclude_none=...)
Dict(inst, exclude_unset, exclude_none) ==
    LET keep == {f \in DOMAIN inst.values :
                    /\ (exclude_unset => f \in inst.fields_set)
                    /\ (exclude_none => inst.values[f].type # "none")}
    IN  [f \in keep |-> inst.values[f]]

\* has_required_patch_fields with any() for all()
has_required_patch_fields_Any(inst) ==
    \E f \in {"last_name", "first_name", "birth_at", "gender",
              "live_together_type", "relation_id"} : Truthy(inst.values[f])

\* DependentPartialUpdateRequest.has_required_patch_fields
has_required_patch_fields(inst) ==
    \A f \in {"last_name", "first_name", "birth_at", "gender",
              "live_together_type", "relation_id"} : Truthy(inst.values[f])

(***************************************************************************)
(* HTTP.  A response is its status code and its body: decodable JSON (the  *)
(* decoded document is doc), no content, or text that is not JSON.  kind   *)
(* "transport" stands for a connection-level failure: requests raises      *)
(* ConnectionError before any response exists.                             *)
(***************************************************************************)
NoDoc == [dependents |-> "absent", keys |-> {}, type |-> "none"]
DocObject == [dependents |-> "absent", keys |-> {"id"}, type |-> "dict"]
DocNoDependents == [dependents |-> "empty", keys |-> {"dependents"}, type |-> "dict"]
DocNoDependentsMore ==
    [dependents |-> "empty", keys |-> {"dependents", "total"}, type |-> "dict"]
DocDependents == [dependents |-> "nonempty", keys |-> {"dependents"}, type |-> "dict"]
DocList == [dependents |-> "absent", keys |-> {}, type |-> "list"]

Docs == {DocObject, DocNoDependents, DocNoDependentsMore, DocDependents, DocList}

Response(status, kind, doc) == [doc |-> doc, kind |-> kind, status |-> status]

\* what the remote (or the transport) may answer to one request
Responses ==
    {Response(200, "json", d) : d \in Docs}
    \cup {Response(200, "empty", NoDoc), Response(201, "json", DocObject),
          Response(204, "empty", NoDoc), Response(304, "empty", NoDoc),
          Response(404, "json", DocObject), Response(404, "text", NoDoc),
          Response(500, "text", NoDoc), Response(0, "transport", NoDoc)}

Ids == {"id1", "id2"}

Request(method, path, params, json) ==
    [json |-> json, method |-> method, params |-> params, path |-> path]

\* the query string requests encodes from params: a key whose value is None
\* is left out
QueryString(request) ==
    [k \in {x \in DOMAIN request.params : request.params[x].type # "none"} |->
        request.params[k]]

\* Python values an operation returns
PyNone == [doc |-> NoDoc, message |-> "", status |-> 0, type |-> "None"]
Json(doc) == [doc |-> doc, message |-> "", status |-> 0, type |-> "json"]
StatusDict(status, message) ==
    [doc |-> NoDoc, message |-> message, status |-> status, type |-> "status"]
MessageDict(doc, message) ==
    [doc |-> doc, message |-> message, status |-> 0, type |-> "message"]

\* the dicts smarthr_create_dependent returns from its except clauses
ValidationErrorMessage == "the input is invalid"
UnexpectedErrorMessage == "unexpected error while registering the dependent"
ErrorDict(message) ==
    [doc |-> NoDoc, message |-> message, status |-> 0, type |-> "error"]

\* how a call ends: return value, or raise exc (resp is e.response of an HTTPError)
Return(value) ==
    [exc |-> "", kind |-> "return", resp |-> Response(0, "none", NoDoc),
     value |-> value]
Raise(exc, resp) ==
    [exc |-> exc, kind |-> "raise", resp |-> resp, value |-> PyNone]
NoOutcome ==
    [exc |-> "", kind |-> "none", resp |-> Response(0, "none", NoDoc),
     value |-> PyNone]

\* whether requests.request raised instead of returning a response
TransportFailed(resp) == resp.kind = "transport"

\* raise_for_status that raises for 5xx only
RaisesForStatus_ServerOnly(resp) == 500 <= resp.status /\ resp.status < 600

\* Response.raise_for_status(): raises HTTPError for 4xx and 5xx
RaisesForStatus(resp) ==
    (400 <= resp.status /\ resp.status < 500)
    \/ (500 <= resp.status /\ resp.status < 600)

\* Response.json(): the decoded body, or JSONDecodeError
ResponseJson(resp) ==
    IF resp.kind = "json" THEN Return(Json(resp.doc))
    ELSE Raise("JSONDecodeError", Response(0, "none", NoDoc))

\* response.raise_for_status(); return response.json()
RaiseOrJson(resp) ==
    IF TransportFailed(resp) THEN Raise("ConnectionError", Response(0, "none", NoDoc))
    ELSE IF RaisesForStatus(resp) THEN Raise("HTTPError", resp)
    ELSE ResponseJson(resp)

\* response.raise_for_status() and nothing after it (the method returns None)
RaiseOrNone(resp) ==
    IF TransportFailed(resp) THEN Raise("ConnectionError", Response(0, "none", NoDoc))
    ELSE IF RaisesForStatus(resp) THEN Raise("HTTPError", resp)
    ELSE Return(PyNone)

\* SmartHRClient._request, after requests.request returned resp
RequestResult(resp) ==
    IF TransportFailed(resp) THEN Raise("ConnectionError", Response(0, "none", NoDoc))
    ELSE IF resp.status = 204 THEN Return(StatusDict(204, "No Content"))
    ELSE IF RaisesForStatus(resp) THEN Raise("HTTPError", resp)
    ELSE ResponseJson(resp)

(***************************************************************************)
(* The client object.  The environment gives SMARTHR_API_KEY and           *)
(* SMARTHR_API_BASE_URL, each a string or Absent (the variable is not      *)
(* set).                                                                   *)
(***************************************************************************)
DefaultBaseUrl == Str(<<"https://app.smarthr.jp/api">>)
OtherBaseUrl == Str(<<"https://sandbox.example/api">>)
ApiKey == Str(<<"k", "e", "y">>)

Envs ==
    {[api_key |-> k, base_url |-> b] :
        k \in {Absent, Str(<<>>), ApiKey}, b \in {Absent, OtherBaseUrl}}

\* os.getenv(name, default)
Getenv(v, default) == IF v = Absent THEN default ELSE v

\* SmartHRClient(): ok is FALSE when __init__ raises ValueError
SmartHRClient_init(env) ==
    LET base_url == Getenv(env.base_url, DefaultBaseUrl)
        api_key == Getenv(env.api_key, None_)
    IN  [api_key |-> api_key,
         base_url |-> base_url,
         headers |-> [authorization |-> Str(<<"Bearer ">> \o api_key.str),
                      content_type |-> Str(<<"application/json">>)],
         ok |-> Truthy(api_key)]

\* no client object exists
NoClient ==
    [api_key |-> None_, base_url |-> None_,
     headers |-> [authorization |-> None_, content_type |-> None_],
     ok |-> FALSE]

\* a request sent to the default base URL whatever the client holds
Send_DefaultUrl(self, request) ==
    [base_url |-> DefaultBaseUrl, headers |-> self.headers,
     json |-> request.json, method |-> request.method,
     params |-> request.params, path |-> request.path]

\* the request as self sends it: to self.base_url, with self.headers
Send(self, request) ==
    [base_url |-> self.base_url, headers |-> self.headers,
     json |-> request.json, method |-> request.method,
     params |-> request.params, path |-> request.path]

(***************************************************************************)
(* The state machine.                                                      *)
(***************************************************************************)
FirstDay == ToOrdinal(2024, 3, 1)

Init ==
    /\ today = FirstDay
    /\ pc = "start"
    /\ op = "none"
    /\ args = EmptyDict
    /\ sent = <<>>
    /\ got = <<>>
    /\ outcome = NoOutcome
    /\ smarthr_client = NoClient

\* an invocation that leaves the client it ran on in the module's global
InvokeOn_KeepsClient(self, name, a, requests, responses, result) ==
    /\ pc' = "done"
    /\ op' = name
    /\ args' = a
    /\ sent' = [i \in DOMAIN requests |-> Send(self, requests[i])]
    /\ got' = responses
    /\ outcome' = result
    /\ smarthr_client' = self
    /\ UNCHANGED today

\* one invocation of an operation on the client self, start to end
InvokeOn(self, name, a, requests, responses, result) ==
    /\ pc' = "done"
    /\ op' = name
    /\ args' = a
    /\ sent' = [i \in DOMAIN requests |-> Send(self, requests[i])]
    /\ got' = responses
    /\ outcome' = result
    /\ UNCHANGED <<today, smarthr_client>>

\* one invocation on the client of the server module
Invoke(name, a, requests, responses, result) ==
    InvokeOn(smarthr_client, name, a, requests, responses, result)

\* the caller takes the outcome; the client keeps nothing of the call
Complete ==
    /\ pc = "done"
    /\ pc' = "idle"
    /\ op' = "none"
    /\ args' = EmptyDict
    /\ sent' = <<>>
    /\ got' = <<>>
    /\ outcome' = NoOutcome
    /\ UNCHANGED <<today, smarthr_client>>

\* server.py is loaded: smarthr_client = SmartHRClient().  When the
\* constructor raises, the module does not load and no tool exists.
Startup ==
    /\ pc = "start"
    /\ \E env \in Envs :
           LET self == SmartHRClient_init(env)
           IN  /\ op' = "startup"
               /\ args' = [env |-> env]
               /\ sent' = <<>>
               /\ got' = <<>>
               /\ UNCHANGED today
               /\ IF self.ok
                  THEN /\ pc' = "done"
                       /\ smarthr_client' = self
                       /\ outcome' = Return(PyNone)
                  ELSE /\ pc' = "failed"
                       /\ smarthr_client' = NoClient
                       /\ outcome' = Raise("ValueError", Response(0, "none", NoDoc))

\* the calendar day changes
Tick ==
    /\ pc = "idle"
    /\ today < FirstDay + MaxTicks
    /\ today' = today + 1
    /\ UNCHANGED <<pc, op, args, sent, got, outcome, smarthr_client>>

(***************************************************************************)
(* The arguments callers pass.  A caller's dict (the fields of a request   *)
(* model, or the keyword arguments of a list operation) differs from a     *)
(* base dict in at most MaxEdits keys; each key takes its base value or    *)
(* one of its alternatives (Absent: the key is not supplied).              *)
(***************************************************************************)
Eng == <<"E", "n", "g">>
Slashed == <<"a", "/", "b">>
Word == <<"x">>

\* dates around FirstDay, well formed and not
DateInputs ==
    {<<"2","0","2","4","-","0","2","-","2","9">>,
     <<"2","0","2","4","-","0","3","-","0","1">>,
     <<"2","0","2","4","-","0","3","-","0","2">>,
     <<"2","0","2","4","-","0","3","-","0","3">>,
     <<"2","0","2","4","-","0","3","-","0","5">>,
     <<"2","0","2","4","-","2","-","9">>,
     <<"2","0","2","4","-","0","2","-","3","0">>,
     <<"2","0","2","3","-","0","2","-","2","9">>,
     <<"2","0","2","4","/","0","2","/","2","8">>,
     <<"y","e","s","t","e","r","d","a","y">>,
     <<>>}

BirthDay == <<"1","9","9","0","-","0","1","-","3","1">>
NotADay == <<"1","9","9","0","/","0","1","/","3","1">>

\* the value a key has in the base dict
BaseValue(f) ==
    CASE f \in {"name"} -> Str(Eng)
      [] f = "rank" -> Num(5)
      [] f \in {"relation_id", "last_name", "first_name"} -> Str(Word)
      [] f = "birth_at" -> Str(BirthDay)
      [] f = "gender" -> Str(Male)
      [] f = "live_together_type" -> Str(LivingTogether)
      [] OTHER -> Absent

\* the other values a key may take
Alternatives(f) ==
    CASE f = "name" -> {Absent, None_, Str(<<>>), Str(Slashed), Str(<<"/">>)}
      [] f = "rank" -> {Absent, None_, Num(0 - 1), Num(0), Num(1), Num(99999),
                        Num(100000)}
      [] f = "position" -> {None_, Num(3)}
      [] f \in {"relation_id", "last_name", "first_name"} ->
             {Absent, None_, Str(<<>>)}
      [] f = "birth_at" -> {Absent, None_, Str(<<>>), Str(NotADay)}
      [] f = "gender" -> {Absent, None_, Str(<<>>), Str(Female), Str(Word),
                          Str(<<"M","a","l","e">>)}
      [] f = "live_together_type" ->
             {Absent, None_, Str(<<>>), Str(LivingSeparately), Str(Word)}
      [] f = "emp_ins_qualified_at" -> {None_, Str(BirthDay), Str(NotADay)}
      [] f = "page" -> {Num(2)}
      [] f = "per_page" -> {Num(50)}
      [] f = "prefer_business_name" -> {None_, Bool(TRUE), Bool(FALSE)}
      [] OTHER -> {None_, Str(<<>>), Str(Word)}

EditSets(keys) == {E \in SUBSET keys : Cardinality(E) <= MaxEdits}

\* the dict in which the keys of E take the values of choice
Edited(keys, E, choice) ==
    LET full == [f \in keys |-> IF f \in E THEN choice[f] ELSE BaseValue(f)]
    IN  [f \in {g \in keys : full[g] # Absent} |-> full[f]]

\* the caller's dicts over keys
Inputs(keys) ==
    UNION {{Edited(keys, E, c) :
               c \in {x \in [E -> UNION {Alternatives(f) : f \in E}] :
                         \A f \in E : x[f] \in Alternatives(f)}} :
           E \in EditSets(keys)}

\* a keyword argument, or its default when the caller leaves it out
Arg(kw, k, default) == IF k \in DOMAIN kw THEN kw[k] ELSE default

\* the truthy ones among the optional arguments: if code: params['code'] = code
Supplied(kw, keys) ==
    [k \in {x \in keys \cap DOMAIN kw : Truthy(kw[x])} |-> kw[k]]

\* {**d1, **d2}
Merge(d1, d2) ==
    [k \in DOMAIN d1 \cup DOMAIN d2 |-> IF k \in DOMAIN d2 THEN d2[k] ELSE d1[k]]

\* params = {'page': page, 'per_page': per_page}
PageParams(kw, perPageDefault) ==
    [page |-> Arg(kw, "page", Num(1)),
     per_page |-> Arg(kw, "per_page", Num(perPageDefault))]

NoResponse == Response(0, "none", NoDoc)

\* the caller's construction of the request model failed: nothing is called
Rejected(name, a) == Invoke(name, a, <<>>, <<>>, Raise("ValidationError", NoResponse))

\* the operation sends one request and ends with result
One(name, a, request, resp, result) == Invoke(name, a, <<request>>, <<resp>>, result)

(***************************************************************************)
(* Crews.                                                                  *)
(***************************************************************************)
create_crew ==
    /\ pc = "idle"
    /\ \E data \in Inputs(CrewFields) :
           LET crew_data == Construct("CrewCreateRequest", data, today)
               a == [data |-> data]
           IN  IF ~crew_data.ok THEN Rejected("create_crew", a)
               ELSE \E resp \in Responses :
                        One("create_crew", a,
                            Request("POST", <<"v1", "crews">>, EmptyDict,
                                    Dict(crew_data, TRUE, TRUE)),
                            resp, RaiseOrJson(resp))

get_crew ==
    /\ pc = "idle"
    /\ \E id \in Ids, kw \in Inputs({"fields"}), resp \in Responses :
           One("get_crew", [crew_id |-> id, kw |-> kw],
               Request("GET", <<"v1", "crews", id>>, Supplied(kw, {"fields"}), EmptyDict),
               resp, RaiseOrJson(resp))

update_crew ==
    /\ pc = "idle"
    /\ \E id \in Ids, data \in Inputs(CrewFields) :
           LET crew_data == Construct("CrewUpdateRequest", data, today)
               a == [crew_id |-> id, data |-> data]
           IN  IF ~crew_data.ok THEN Rejected("update_crew", a)
               ELSE \E resp \in Responses :
                        One("update_crew", a,
                            Request("PATCH", <<"v1", "crews", id>>, EmptyDict,
                                    Dict(crew_data, TRUE, TRUE)),
                            resp, RaiseOrJson(resp))

ListCrewsFilters == {"emp_code", "department_id"}

\* extra is a keyword the signature does not name: it reaches params through **kwargs
list_crews ==
    /\ pc = "idle"
    /\ \E kw \in Inputs({"page", "per_page", "extra"} \cup ListCrewsFilters),
          resp \in Responses :
           LET extras == [k \in DOMAIN kw \cap {"extra"} |-> kw[k]]
               params == Merge(Merge(PageParams(kw, 10), Supplied(kw, ListCrewsFilters)),
                               extras)
           IN  One("list_crews", [kw |-> kw],
                   Request("GET", <<"v1", "crews">>, params, EmptyDict),
                   resp, RaiseOrJson(resp))

search_crews ==
    /\ pc = "idle"
    /\ \E kw \in Inputs({"page", "per_page", "prefer_business_name"}),
          resp \in Responses :
           LET pbn == [k \in {x \in DOMAIN kw \cap {"prefer_business_name"} :
                                 kw[x].type # "none"} |-> kw[k]]
               params == Merge(Merge([q |-> Str(Word)], PageParams(kw, 10)), pbn)
           IN  One("search_crews", [kw |-> kw, query |-> Str(Word)],
                   Request("GET", <<"v1", "crews">>, params, EmptyDict),
                   resp, RaiseOrJson(resp))

invite_crew ==
    /\ pc = "idle"
    /\ \E id \in Ids, kw \in Inputs({"inviter_user_id", "crew_input_form_id"}),
          resp \in Responses :
           LET given == [k \in {"inviter_user_id", "crew_input_form_id"} |->
                            Arg(kw, k, None_)]
               payload == Supplied(given, {"inviter_user_id", "crew_input_form_id"})
           IN  One("invite_crew", [crew_id |-> id, kw |-> given],
                   Request("PUT", <<"v1", "crews", id, "invite">>, EmptyDict, payload),
                   resp, RaiseOrJson(resp))

delete_crew ==
    /\ pc = "idle"
    /\ \E id \in Ids, resp \in Responses :
           One("delete_crew", [crew_id |-> id],
               Request("DELETE", <<"v1", "crews", id>>, EmptyDict, EmptyDict),
               resp, RaiseOrNone(resp))

(***************************************************************************)
(* Departments.                                                            *)
(***************************************************************************)
partial_update_department ==
    /\ pc = "idle"
    /\ \E id \in Ids, data \in Inputs(DepartmentFields) :
           LET department_data ==
                   Construct("DepartmentPartialUpdateRequest", data, today)
               a == [data |-> data, id |-> id]
           IN  IF ~department_data.ok THEN Rejected("partial_update_department", a)
               ELSE \E resp \in Responses :
                        One("partial_update_department", a,
                            Request("PATCH", <<"v1", "departments", id>>, EmptyDict,
                                    Dict(department_data, TRUE, TRUE)),
                            resp, RaiseOrJson(resp))

update_department ==
    /\ pc = "idle"
    /\ \E id \in Ids, data \in Inputs(DepartmentFields) :
           LET department_data == Construct("DepartmentUpdateRequest", data, today)
               a == [data |-> data, id |-> id]
           IN  IF ~department_data.ok THEN Rejected("update_department", a)
               ELSE \E resp \in Responses :
                        One("update_department", a,
                            Request("PUT", <<"v1", "departments", id>>, EmptyDict,
                                    Dict(department_data, FALSE, FALSE)),
                            resp, RaiseOrJson(resp))

get_department ==
    /\ pc = "idle"
    /\ \E id \in Ids, resp \in Responses :
           One("get_department", [id |-> id],
               Request("GET", <<"v1", "departments", id>>, EmptyDict, EmptyDict),
               resp, RaiseOrJson(resp))

list_departments ==
    /\ pc = "idle"
    /\ \E kw \in Inputs({"page", "per_page", "code", "sort"}), resp \in Responses :
           One("list_departments", [kw |-> kw],
               Request("GET", <<"v1", "departments">>,
                       Merge(PageParams(kw, 10), Supplied(kw, {"code", "sort"})),
                       EmptyDict),
               resp, RaiseOrJson(resp))

create_department ==
    /\ pc = "idle"
    /\ \E data \in Inputs(DepartmentFields) :
           LET department_data == Construct("DepartmentCreateRequest", data, today)
               a == [data |-> data]
           IN  IF ~department_data.ok THEN Rejected("create_department", a)
               ELSE \E resp \in Responses :
                        One("create_department", a,
                            Request("POST", <<"v1", "departments">>, EmptyDict,
                                    Dict(department_data, TRUE, TRUE)),
                            resp, RaiseOrJson(resp))

\* the pre-flight check letting today's date through (> for >=)
DiscontinuePreflight_SameDay(discontinued_date, day) ==
    LET target_date == Strptime(discontinued_date.str)
    IN  IF target_date = NoDate THEN "value_error"
        ELSE IF target_date > day THEN "not_past"
        ELSE ""

\* the pre-flight check: strptime raises ValueError, or the date is not before today
DiscontinuePreflight(discontinued_date, day) ==
    LET target_date == Strptime(discontinued_date.str)
    IN  IF target_date = NoDate THEN "value_error"
        ELSE IF target_date >= day THEN "not_past"
        ELSE ""

\* the day may change between datetime.today() of the pre-flight check and
\* datetime.now() of the validator
discontinue_department ==
    /\ pc = "idle"
    /\ \E id \in Ids, chars \in DateInputs, now \in {today, today + 1} :
           LET discontinued_date == Str(chars)
               a == [discontinued_date |-> discontinued_date, id |-> id]
               payload == Construct("DepartmentDiscontinueRequest",
                                    [discontinued_date |-> discontinued_date], now)
               request == Request("POST", <<"v1", "departments", id, "discontinue">>,
                                  EmptyDict, Dict(payload, FALSE, FALSE))
           IN  IF DiscontinuePreflight(discontinued_date, today) # ""
               THEN Invoke("discontinue_department", a, <<>>, <<>>,
                           Raise("ValueError", NoResponse))
               ELSE IF ~payload.ok
               THEN Invoke("discontinue_department", a, <<>>, <<>>,
                           Raise("ValidationError", NoResponse))
               ELSE \E resp \in Responses :
                        One("discontinue_department", a, request, resp,
                            IF TransportFailed(resp)
                            THEN Raise("ConnectionError", NoResponse)
                            ELSE IF RaisesForStatus(resp) THEN Raise("HTTPError", resp)
                            ELSE Return(StatusDict(resp.status,
                                            "Department discontinued successfully")))

(***************************************************************************)
(* Employment types.  The class defines list_employment_types twice; the   *)
(* second definition replaces the first, builds params and ends there.     *)
(***************************************************************************)
list_employment_types ==
    /\ pc = "idle"
    /\ \E kw \in Inputs({"page", "per_page"}) :
           LET params == PageParams(kw, 10)
           IN  Invoke("list_employment_types", [kw |-> kw], <<>>, <<>>,
                      Return(PyNone))

create_employment_type ==
    /\ pc = "idle"
    /\ \E data \in Inputs({"name", "code"}) :
           LET employment_type_data ==
                   Construct("EmploymentTypeCreateRequest", data, today)
               a == [data |-> data]
           IN  IF ~employment_type_data.ok THEN Rejected("create_employment_type", a)
               ELSE \E resp \in Responses :
                        One("create_employment_type", a,
                            Request("POST", <<"v1", "employment_types">>, EmptyDict,
                                    Dict(employment_type_data, TRUE, TRUE)),
                            resp, RaiseOrJson(resp))

get_employment_type ==
    /\ pc = "idle"
    /\ \E id \in Ids, resp \in Responses :
           One("get_employment_type", [id |-> id],
               Request("GET", <<"v1", "employment_types", id>>, EmptyDict, EmptyDict),
               resp, RaiseOrJson(resp))

update_employment_type ==
    /\ pc = "idle"
    /\ \E id \in Ids, data \in Inputs({"name"}) :
           LET employment_type_data ==
                   Construct("EmploymentTypeUpdateRequest", data, today)
               a == [data |-> data, id |-> id]
           IN  IF ~employment_type_data.ok THEN Rejected("update_employment_type", a)
               ELSE \E resp \in Responses :
                        One("update_employment_type", a,
                            Request("PUT", <<"v1", "employment_types", id>>, EmptyDict,
                                    Dict(employment_type_data, FALSE, FALSE)),
                            resp, RaiseOrJson(resp))

partial_update_employment_type ==
    /\ pc = "idle"
    /\ \E id \in Ids, data \in Inputs({"name", "code"}) :
           LET employment_type_data ==
                   Construct("EmploymentTypePartialUpdateRequest", data, today)
               a == [data |-> data, id |-> id]
           IN  IF ~employment_type_data.ok
               THEN Rejected("partial_update_employment_type", a)
               ELSE \E resp \in Responses :
                        One("partial_update_employment_type", a,
                            Request("PATCH", <<"v1", "employment_types", id>>, EmptyDict,
                                    Dict(employment_type_data, TRUE, TRUE)),
                            resp, RaiseOrJson(resp))

delete_employment_type ==
    /\ pc = "idle"
    /\ \E id \in Ids, resp \in Responses :
           One("delete_employment_type", [id |-> id],
               Request("DELETE", <<"v1", "employment_types", id>>, EmptyDict,
                       EmptyDict),
               resp, RaiseOrNone(resp))

(***************************************************************************)
(* Job titles.                                                             *)
(***************************************************************************)
list_job_titles ==
    /\ pc = "idle"
    /\ \E kw \in Inputs({"page", "per_page", "sort"}), resp \in Responses :
           One("list_job_titles", [kw |-> kw],
               Request("GET", <<"v1", "job_titles">>,
                       Merge(PageParams(kw, 10), Supplied(kw, {"sort"})), EmptyDict),
               resp, RaiseOrJson(resp))

create_job_title ==
    /\ pc = "idle"
    /\ \E data \in Inputs({"name", "rank", "code"}) :
           LET job_title_data == Construct("JobTitleCreateRequest", data, today)
               a == [data |-> data]
           IN  IF ~job_title_data.ok THEN Rejected("create_job_title", a)
               ELSE \E resp \in Responses :
                        One("create_job_title", a,
                            Request("POST", <<"v1", "job_titles">>, EmptyDict,
                                    Dict(job_title_data, TRUE, TRUE)),
                            resp, RaiseOrJson(resp))

get_job_title ==
    /\ pc = "idle"
    /\ \E id \in Ids, resp \in Responses :
           One("get_job_title", [id |-> id],
               Request("GET", <<"v1", "job_titles", id>>, EmptyDict, EmptyDict),
               resp, RaiseOrJson(resp))

update_job_title ==
    /\ pc = "idle"
    /\ \E id \in Ids, data \in Inputs({"name", "rank"}) :
           LET job_title_data == Construct("JobTitleUpdateRequest", data, today)
               a == [data |-> data, id |-> id]
           IN  IF ~job_title_data.ok THEN Rejected("update_job_title", a)
               ELSE \E resp \in Responses :
                        One("update_job_title", a,
                            Request("PUT", <<"v1", "job_titles", id>>, EmptyDict,
                                    Dict(job_title_data, FALSE, FALSE)),
                            resp, RaiseOrJson(resp))

partial_update_job_title ==
    /\ pc = "idle"
    /\ \E id \in Ids, data \in Inputs({"name", "rank", "code"}) :
           LET job_title_data ==
                   Construct("JobTitlePartialUpdateRequest", data, today)
               a == [data |-> data, id |-> id]
           IN  IF ~job_title_data.ok THEN Rejected("partial_update_job_title", a)
               ELSE \E resp \in Responses :
                        One("partial_update_job_title", a,
                            Request("PATCH", <<"v1", "job_titles", id>>, EmptyDict,
                                    Dict(job_title_data, TRUE, TRUE)),
                            resp, RaiseOrJson(resp))

\* after the DELETE the method goes on to GET /v1/employment_types and
\* returns that response's body
delete_job_title ==
    /\ pc = "idle"
    /\ \E id \in Ids, first \in Responses :
           LET delete == Request("DELETE", <<"v1", "job_titles", id>>, EmptyDict,
                                 EmptyDict)
               get == Request("GET", <<"v1", "employment_types">>, EmptyDict,
                              EmptyDict)
           IN  IF RaiseOrNone(first).kind = "raise"
               THEN One("delete_job_title", [id |-> id], delete, first,
                        RaiseOrNone(first))
               ELSE \E second \in Responses :
                        Invoke("delete_job_title", [id |-> id], <<delete, get>>,
                               <<first, second>>, RaiseOrJson(second))

(***************************************************************************)
(* Grades.                                                                 *)
(***************************************************************************)
list_grades ==
    /\ pc = "idle"
    /\ \E kw \in Inputs({"page", "per_page", "sort"}), resp \in Responses :
           One("list_grades", [kw |-> kw],
               Request("GET", <<"v1", "grades">>,
                       Merge(PageParams(kw, 10), Supplied(kw, {"sort"})), EmptyDict),
               resp, RaiseOrJson(resp))

create_grade ==
    /\ pc = "idle"
    /\ \E data \in Inputs({"name", "rank"}) :
           LET grade_data == Construct("GradeCreateRequest", data, today)
               a == [data |-> data]
           IN  IF ~grade_data.ok THEN Rejected("create_grade", a)
               ELSE \E resp \in Responses :
                        One("create_grade", a,
                            Request("POST", <<"v1", "grades">>, EmptyDict,
                                    Dict(grade_data, TRUE, TRUE)),
                            resp, RaiseOrJson(resp))

get_grade ==
    /\ pc = "idle"
    /\ \E id \in Ids, resp \in Responses :
           One("get_grade", [id |-> id],
               Request("GET", <<"v1", "grades", id>>, EmptyDict, EmptyDict),
               resp, RaiseOrJson(resp))

update_grade ==
    /\ pc = "idle"
    /\ \E id \in Ids, data \in Inputs({"name", "rank"}) :
           LET grade_data == Construct("GradeUpdateRequest", data, today)
               a == [data |-> data, id |-> id]
           IN  IF ~grade_data.ok THEN Rejected("update_grade", a)
               ELSE \E resp \in Responses :
                        One("update_grade", a,
                            Request("PUT", <<"v1", "grades", id>>, EmptyDict,
                                    Dict(grade_data, TRUE, TRUE)),
                            resp, RaiseOrJson(resp))

partial_update_grade ==
    /\ pc = "idle"
    /\ \E id \in Ids, data \in Inputs({"name", "rank"}) :
           LET grade_data == Construct("GradePartialUpdateRequest", data, today)
               a == [data |-> data, id |-> id]
           IN  IF ~grade_data.ok THEN Rejected("partial_update_grade", a)
               ELSE \E resp \in Responses :
                        One("partial_update_grade", a,
                            Request("PATCH", <<"v1", "grades", id>>, EmptyDict,
                                    Dict(grade_data, TRUE, TRUE)),
                            resp, RaiseOrJson(resp))

\* the response is dropped: no raise_for_status, no return
delete_grade ==
    /\ pc = "idle"
    /\ \E id \in Ids, resp \in Responses :
           One("delete_grade", [id |-> id],
               Request("DELETE", <<"v1", "grades", id>>, EmptyDict, EmptyDict),
               resp,
               IF TransportFailed(resp) THEN Raise("ConnectionError", NoResponse)
               ELSE Return(PyNone))

(***************************************************************************)
(* Job categories.                                                         *)
(***************************************************************************)
list_job_categories ==
    /\ pc = "idle"
    /\ \E kw \in Inputs({"page", "per_page", "sort"}), resp \in Responses :
           One("list_job_categories", [kw |-> kw],
               Request("GET", <<"v1", "job_categories">>,
                       Merge(PageParams(kw, 10), Supplied(kw, {"sort"})), EmptyDict),
               resp, RequestResult(resp))

create_job_category ==
    /\ pc = "idle"
    /\ \E data \in Inputs({"name"}) :
           LET job_category_data == Construct("JobCategoryCreateRequest", data, today)
               a == [data |-> data]
           IN  IF ~job_category_data.ok THEN Rejected("create_job_category", a)
               ELSE \E resp \in Responses :
                        One("create_job_category", a,
                            Request("POST", <<"v1", "job_categories">>, EmptyDict,
                                    Dict(job_category_data, TRUE, TRUE)),
                            resp, RequestResult(resp))

get_job_category ==
    /\ pc = "idle"
    /\ \E id \in Ids, resp \in Responses :
           One("get_job_category", [id |-> id],
               Request("GET", <<"v1", "job_categories", id>>, EmptyDict, EmptyDict),
               resp, RequestResult(resp))

(***************************************************************************)
(* Dependents and relations.                                               *)
(***************************************************************************)
NoDependentsMessage == "no dependents are registered for this crew"

\* list_dependents handing the response on as it is
list_dependents_result_Raw(response) == response

\* list_dependents testing `not response.get("dependents")`: a dict without
\* the key is replaced by the message as well
list_dependents_result_Falsy(response) ==
    IF /\ response.kind = "return"
       /\ response.value.type = "json"
       /\ response.value.doc.type = "dict"
       /\ response.value.doc.dependents # "nonempty"
    THEN Return(MessageDict(
             [dependents |-> "empty",
              keys |-> {"message", "dependents"}, type |-> "dict"],
             NoDependentsMessage))
    ELSE response

\* what list_dependents returns for the result of _request: a dict whose
\* "dependents" is [] is replaced by a message and an empty list
list_dependents_result(response) ==
    IF /\ response.kind = "return"
       /\ response.value.type = "json"
       /\ response.value.doc.type = "dict"
       /\ response.value.doc.dependents = "empty"
    THEN Return(MessageDict(
             [dependents |-> "empty",
              keys |-> {"message", "dependents"}, type |-> "dict"],
             NoDependentsMessage))
    ELSE response

\* extra is a keyword the signature does not name: it reaches params through **kwargs
list_dependents ==
    /\ pc = "idle"
    /\ \E crew \in Ids, kw \in Inputs({"page", "per_page", "extra"}),
          resp \in Responses :
           LET extras == [k \in DOMAIN kw \cap {"extra"} |-> kw[k]]
               response == RequestResult(resp)
           IN  One("list_dependents", [crew_id |-> crew, kw |-> kw],
                   Request("GET", <<"v1", "crews", crew, "dependents">>,
                           Merge(PageParams(kw, 10), extras), EmptyDict),
                   resp,
                   list_dependents_result(response))

create_dependent ==
    /\ pc = "idle"
    /\ \E crew \in Ids, data \in Inputs(DependentFields) :
           LET dependent_data == Construct("DependentCreateRequest", data, today)
               a == [crew_id |-> crew, data |-> data]
           IN  IF ~dependent_data.ok THEN Rejected("create_dependent", a)
               ELSE \E resp \in Responses :
                        One("create_dependent", a,
                            Request("POST", <<"v1", "crews", crew, "dependents">>,
                                    EmptyDict, Dict(dependent_data, FALSE, TRUE)),
                            resp, RequestResult(resp))

get_dependent ==
    /\ pc = "idle"
    /\ \E crew \in Ids, id \in Ids, resp \in Responses :
           One("get_dependent", [crew_id |-> crew, id |-> id],
               Request("GET", <<"v1", "crews", crew, "dependents", id>>, EmptyDict,
                       EmptyDict),
               resp, RequestResult(resp))

update_dependent ==
    /\ pc = "idle"
    /\ \E crew \in Ids, id \in Ids, data \in Inputs(DependentFields) :
           LET dependent_data == Construct("DependentUpdateRequest", data, today)
               a == [crew_id |-> crew, data |-> data, id |-> id]
           IN  IF ~dependent_data.ok THEN Rejected("update_dependent", a)
               ELSE \E resp \in Responses :
                        One("update_dependent", a,
                            Request("PUT", <<"v1", "crews", crew, "dependents", id>>,
                                    EmptyDict, Dict(dependent_data, TRUE, TRUE)),
                            resp, RequestResult(resp))

partial_update_dependent ==
    /\ pc = "idle"
    /\ \E crew \in Ids, id \in Ids, data \in Inputs(DependentFields) :
           LET dependent_data ==
                   Construct("DependentPartialUpdateRequest", data, today)
               a == [crew_id |-> crew, data |-> data, id |-> id]
           IN  IF ~dependent_data.ok THEN Rejected("partial_update_dependent", a)
               ELSE IF ~has_required_patch_fields(dependent_data)
               THEN Invoke("partial_update_dependent", a, <<>>, <<>>,
                           Raise("ValueError", NoResponse))
               ELSE \E resp \in Responses :
                        One("partial_update_dependent", a,
                            Request("PATCH", <<"v1", "crews", crew, "dependents", id>>,
                                    EmptyDict, Dict(dependent_data, TRUE, TRUE)),
                            resp, RequestResult(resp))

\* the value _request returns is dropped
delete_dependent ==
    /\ pc = "idle"
    /\ \E crew \in Ids, id \in Ids, resp \in Responses :
           One("delete_dependent", [crew_id |-> crew, id |-> id],
               Request("DELETE", <<"v1", "crews", crew, "dependents", id>>,
                       EmptyDict, EmptyDict),
               resp,
               IF RequestResult(resp).kind = "raise" THEN RequestResult(resp)
               ELSE Return(PyNone))

list_relations ==
    /\ pc = "idle"
    /\ \E kw \in Inputs({"page", "per_page"}), resp \in Responses :
           One("list_relations", [kw |-> kw],
               Request("GET", <<"v1", "dependent_relations">>, PageParams(kw, 100),
                       EmptyDict),
               resp, RaiseOrJson(resp))

(***************************************************************************)
(* The tool layer (server.py).  A tool builds the request model from its   *)
(* arguments and calls the method of the module's client.                  *)
(***************************************************************************)
\* SmartHRClient defines no partial_update_job_category: the attribute lookup
\* on the client raises AttributeError once the model is built
smarthr_partial_update_job_category ==
    /\ pc = "idle"
    /\ \E id \in Ids, name \in {None_, Str(<<>>), Str(Eng)} :
           LET data == [name |-> name]
               job_category_data ==
                   Construct("JobCategoryPartialUpdateRequest", data, today)
               a == [data |-> data, id |-> id]
           IN  IF ~job_category_data.ok
               THEN Rejected("smarthr_partial_update_job_category", a)
               ELSE Invoke("smarthr_partial_update_job_category", a, <<>>, <<>>,
                           Raise("AttributeError", NoResponse))

\* the keyword arguments a list tool passes on: page and per_page are always
\* passed, with the tool's own defaults
ToolPage(kw, perPageDefault) ==
    Merge(kw, [page |-> Arg(kw, "page", Num(1)),
               per_page |-> Arg(kw, "per_page", Num(perPageDefault))])

smarthr_list_crews ==
    /\ pc = "idle"
    /\ \E kw \in Inputs({"page", "per_page", "extra"} \cup ListCrewsFilters),
          resp \in Responses :
           LET call == ToolPage(kw, 10)
               extras == [k \in DOMAIN call \cap {"extra"} |-> call[k]]
               params == Merge(Merge(PageParams(call, 10),
                                     Supplied(call, ListCrewsFilters)), extras)
           IN  One("smarthr_list_crews", [kw |-> kw],
                   Request("GET", <<"v1", "crews">>, params, EmptyDict),
                   resp, RaiseOrJson(resp))

smarthr_search_crews ==
    /\ pc = "idle"
    /\ \E kw \in Inputs({"page", "per_page"}), resp \in Responses :
           LET call == ToolPage(kw, 10)
               params == Merge([q |-> Str(Word)], PageParams(call, 10))
           IN  One("smarthr_search_crews", [kw |-> kw, query |-> Str(Word)],
                   Request("GET", <<"v1", "crews">>, params, EmptyDict),
                   resp, RaiseOrJson(resp))

smarthr_list_departments ==
    /\ pc = "idle"
    /\ \E kw \in Inputs({"page", "per_page", "code", "sort"}), resp \in Responses :
           LET call == Merge([code |-> Arg(kw, "code", None_),
                              sort |-> Arg(kw, "sort", None_)], ToolPage(kw, 10))
           IN  One("smarthr_list_departments", [kw |-> kw],
                   Request("GET", <<"v1", "departments">>,
                           Merge(PageParams(call, 10), Supplied(call, {"code", "sort"})),
                           EmptyDict),
                   resp, RaiseOrJson(resp))

\* the client method it calls sends nothing and returns None
smarthr_list_employment_types ==
    /\ pc = "idle"
    /\ \E kw \in Inputs({"page", "per_page"}) :
           Invoke("smarthr_list_employment_types", [kw |-> kw], <<>>, <<>>,
                  Return(PyNone))

smarthr_list_job_titles ==
    /\ pc = "idle"
    /\ \E kw \in Inputs({"page", "per_page", "sort"}), resp \in Responses :
           LET call == Merge([sort |-> Arg(kw, "sort", None_)], ToolPage(kw, 10))
           IN  One("smarthr_list_job_titles", [kw |-> kw],
                   Request("GET", <<"v1", "job_titles">>,
                           Merge(PageParams(call, 10), Supplied(call, {"sort"})),
                           EmptyDict),
                   resp, RaiseOrJson(resp))

smarthr_list_grades ==
    /\ pc = "idle"
    /\ \E kw \in Inputs({"page", "per_page", "sort"}), resp \in Responses :
           LET call == Merge([sort |-> Arg(kw, "sort", None_)], ToolPage(kw, 10))
           IN  One("smarthr_list_grades", [kw |-> kw],
                   Request("GET", <<"v1", "grades">>,
                           Merge(PageParams(call, 10), Supplied(call, {"sort"})),
                           EmptyDict),
                   resp, RaiseOrJson(resp))

smarthr_list_job_categories ==
    /\ pc = "idle"
    /\ \E kw \in Inputs({"page", "per_page", "sort"}), resp \in Responses :
           LET call == Merge([sort |-> Arg(kw, "sort", None_)], ToolPage(kw, 10))
           IN  One("smarthr_list_job_categories", [kw |-> kw],
                   Request("GET", <<"v1", "job_categories">>,
                           Merge(PageParams(call, 10), Supplied(call, {"sort"})),
                           EmptyDict),
                   resp, RequestResult(resp))

smarthr_list_dependents ==
    /\ pc = "idle"
    /\ \E crew \in Ids, kw \in Inputs({"page", "per_page", "extra"}),
          resp \in Responses :
           LET call == ToolPage(kw, 10)
               extras == [k \in DOMAIN call \cap {"extra"} |-> call[k]]
               response == RequestResult(resp)
           IN  One("smarthr_list_dependents", [crew_id |-> crew, kw |-> kw],
                   Request("GET", <<"v1", "crews", crew, "dependents">>,
                           Merge(PageParams(call, 10), extras), EmptyDict),
                   resp,
                   list_dependents_result(response))

\* the tool builds a client of its own, from the environment of the moment
smarthr_list_relations ==
    /\ pc = "idle"
    /\ \E kw \in Inputs({"page", "per_page"}), env \in Envs :
           LET client == SmartHRClient_init(env)
               call == ToolPage(kw, 100)
               a == [env |-> env, kw |-> kw]
           IN  IF ~client.ok
               THEN InvokeOn(NoClient, "smarthr_list_relations", a, <<>>, <<>>,
                             Raise("ValueError", NoResponse))
               ELSE \E resp \in Responses :
                        InvokeOn(client, "smarthr_list_relations", a,
                                 <<Request("GET", <<"v1", "dependent_relations">>,
                                           PageParams(call, 100), EmptyDict)>>,
                                 <<resp>>, RaiseOrJson(resp))

\* the tool builds the model and a client of its own inside a try block;
\* every exception becomes a returned dict
smarthr_create_dependent ==
    /\ pc = "idle"
    /\ \E crew \in Ids, data \in Inputs(DependentFields) :
           LET model == Construct("DependentCreateRequest", data, today)
           IN  IF ~model.ok
               THEN Invoke("smarthr_create_dependent",
                           [crew_id |-> crew, data |-> data], <<>>, <<>>,
                           Return(ErrorDict(ValidationErrorMessage)))
               ELSE \E env \in Envs :
                        LET client == SmartHRClient_init(env)
                            a == [crew_id |-> crew, data |-> data, env |-> env]
                        IN  IF ~client.ok
                            THEN InvokeOn(NoClient, "smarthr_create_dependent", a,
                                          <<>>, <<>>,
                                          Return(ErrorDict(UnexpectedErrorMessage)))
                            ELSE \E resp \in Responses :
                                     LET result == RequestResult(resp)
                                     IN  InvokeOn(
                                             client, "smarthr_create_dependent", a,
                                             <<Request("POST",
                                                       <<"v1", "crews", crew,
                                                         "dependents">>,
                                                       EmptyDict,
                                                       Dict(model, FALSE, TRUE))>>,
                                             <<resp>>,
                                             IF result.kind = "raise"
                                             THEN Return(ErrorDict(
                                                      UnexpectedErrorMessage))
                                             ELSE result)

\* the keyword arguments with which a tool builds its model: every field of
\* the signature is passed, None where the caller gave nothing
Keywords(kw, fields) == [f \in fields |-> Arg(kw, f, None_)]

\* a tool that calls the client without return: the value is dropped
NoReturn(result) == IF result.kind = "raise" THEN result ELSE Return(PyNone)

smarthr_create_crew ==
    /\ pc = "idle"
    /\ \E data \in Inputs(CrewFields) :
           LET crew_data == Construct("CrewCreateRequest", data, today)
               a == [data |-> data]
           IN  IF ~crew_data.ok THEN Rejected("smarthr_create_crew", a)
               ELSE \E resp \in Responses :
                        One("smarthr_create_crew", a,
                            Request("POST", <<"v1", "crews">>, EmptyDict,
                                    Dict(crew_data, TRUE, TRUE)),
                            resp, RaiseOrJson(resp))

smarthr_update_crew ==
    /\ pc = "idle"
    /\ \E id \in Ids, data \in Inputs(CrewFields) :
           LET crew_data == Construct("CrewUpdateRequest", data, today)
               a == [crew_id |-> id, data |-> data]
           IN  IF ~crew_data.ok THEN Rejected("smarthr_update_crew", a)
               ELSE \E resp \in Responses :
                        One("smarthr_update_crew", a,
                            Request("PATCH", <<"v1", "crews", id>>, EmptyDict,
                                    Dict(crew_data, TRUE, TRUE)),
                            resp, RaiseOrJson(resp))

smarthr_invite_crew ==
    /\ pc = "idle"
    /\ \E id \in Ids, kw \in Inputs({"inviter_user_id", "crew_input_form_id"}),
          resp \in Responses :
           LET given == Keywords(kw, {"inviter_user_id", "crew_input_form_id"})
               payload == Supplied(given, {"inviter_user_id", "crew_input_form_id"})
           IN  One("smarthr_invite_crew", [crew_id |-> id, kw |-> given],
                   Request("PUT", <<"v1", "crews", id, "invite">>, EmptyDict, payload),
                   resp, RaiseOrJson(resp))

\* the tool hands the string to the client: it builds no model of its own
smarthr_discontinue_department ==
    /\ pc = "idle"
    /\ \E id \in Ids, chars \in DateInputs, now \in {today, today + 1} :
           LET discontinued_date == Str(chars)
               a == [discontinued_date |-> discontinued_date, id |-> id]
               payload == Construct("DepartmentDiscontinueRequest",
                                    [discontinued_date |-> discontinued_date], now)
               request == Request("POST", <<"v1", "departments", id, "discontinue">>,
                                  EmptyDict, Dict(payload, FALSE, FALSE))
           IN  IF DiscontinuePreflight(discontinued_date, today) # ""
               THEN Invoke("smarthr_discontinue_department", a, <<>>, <<>>,
                           Raise("ValueError", NoResponse))
               ELSE IF ~payload.ok
               THEN Invoke("smarthr_discontinue_department", a, <<>>, <<>>,
                           Raise("ValidationError", NoResponse))
               ELSE \E resp \in Responses :
                        One("smarthr_discontinue_department", a, request, resp,
                            IF TransportFailed(resp)
                            THEN Raise("ConnectionError", NoResponse)
                            ELSE IF RaisesForStatus(resp) THEN Raise("HTTPError", resp)
                            ELSE Return(StatusDict(resp.status,
                                            "Department discontinued successfully")))

\* the client method sends the DELETE and then a GET of the employment types
smarthr_delete_job_title ==
    /\ pc = "idle"
    /\ \E id \in Ids, first \in Responses :
           LET delete == Request("DELETE", <<"v1", "job_titles", id>>, EmptyDict,
                                 EmptyDict)
               get == Request("GET", <<"v1", "employment_types">>, EmptyDict,
                              EmptyDict)
           IN  IF RaiseOrNone(first).kind = "raise"
               THEN One("smarthr_delete_job_title", [id |-> id], delete, first,
                        RaiseOrNone(first))
               ELSE \E second \in Responses :
                        Invoke("smarthr_delete_job_title", [id |-> id],
                               <<delete, get>>, <<first, second>>,
                               NoReturn(RaiseOrJson(second)))

\* SmartHRClient defines no update_job_category
smarthr_update_job_category ==
    /\ pc = "idle"
    /\ \E id \in Ids, kw \in Inputs({"name"}) :
           LET job_category_data ==
                   Construct("JobCategoryUpdateRequest", Keywords(kw, {"name"}), today)
               a == [data |-> kw, id |-> id]
           IN  IF ~job_category_data.ok
               THEN Rejected("smarthr_update_job_category", a)
               ELSE Invoke("smarthr_update_job_category", a, <<>>, <<>>,
                           Raise("AttributeError", NoResponse))

\* SmartHRClient defines no delete_job_category
smarthr_delete_job_category ==
    /\ pc = "idle"
    /\ \E id \in Ids :
           Invoke("smarthr_delete_job_category", [id |-> id], <<>>, <<>>,
                  Raise("AttributeError", NoResponse))

smarthr_get_dependent ==
    /\ pc = "idle"
    /\ \E crew \in Ids, id \in Ids, resp \in Responses :
           One("smarthr_get_dependent", [crew_id |-> crew, id |-> id],
               Request("GET", <<"v1", "crews", crew, "dependents", id>>, EmptyDict,
                       EmptyDict),
               resp, RequestResult(resp))

\* server.py does not import DependentUpdateRequest: the first statement of
\* the tool raises NameError
smarthr_update_dependent ==
    /\ pc = "idle"
    /\ \E crew \in Ids, id \in Ids, data \in Inputs(DependentFields) :
           Invoke("smarthr_update_dependent",
                  [crew_id |-> crew, data |-> data, id |-> id], <<>>, <<>>,
                  Raise("NameError", NoResponse))

smarthr_partial_update_dependent ==
    /\ pc = "idle"
    /\ \E crew \in Ids, id \in Ids, data \in Inputs(DependentFields) :
           LET dependent_request ==
                   Construct("DependentPartialUpdateRequest", data, today)
               a == [crew_id |-> crew, data |-> data, id |-> id]
           IN  IF ~dependent_request.ok
               THEN Rejected("smarthr_partial_update_dependent", a)
               ELSE IF ~has_required_patch_fields(dependent_request)
               THEN Invoke("smarthr_partial_update_dependent", a, <<>>, <<>>,
                           Raise("ValueError", NoResponse))
               ELSE \E resp \in Responses :
                        One("smarthr_partial_update_dependent", a,
                            Request("PATCH",
                                    <<"v1", "crews", crew, "dependents", id>>,
                                    EmptyDict, Dict(dependent_request, TRUE, TRUE)),
                            resp, RequestResult(resp))

smarthr_delete_dependent ==
    /\ pc = "idle"
    /\ \E crew \in Ids, id \in Ids, resp \in Responses :
           One("smarthr_delete_dependent", [crew_id |-> crew, id |-> id],
               Request("DELETE", <<"v1", "crews", crew, "dependents", id>>,
                       EmptyDict, EmptyDict),
               resp, NoReturn(RequestResult(resp)))

\* the dict the crew profiles resource builds from the listing
CrewProfiles(crews) ==
    [doc |-> crews.doc, message |-> "", status |-> 0, type |-> "crew_profiles"]

\* resource smarthr://crew_profiles: list_crews(per_page=5), then crews.get(...)
smarthr_read_crew_profiles ==
    /\ pc = "idle"
    /\ \E resp \in Responses :
           LET crews == RaiseOrJson(resp)
           IN  One("smarthr_read_crew_profiles", EmptyDict,
                   Request("GET", <<"v1", "crews">>,
                           [page |-> Num(1), per_page |-> Num(5)], EmptyDict),
                   resp,
                   IF crews.kind = "raise" THEN crews
                   ELSE IF crews.value.doc.type # "dict"
                   THEN Raise("AttributeError", NoResponse)
                   ELSE Return(CrewProfiles(crews.value)))

smarthr_create_department ==
    /\ pc = "idle"
    /\ \E kw \in Inputs(DepartmentFields) :
           LET department_data ==
                   Construct("DepartmentCreateRequest",
                             Keywords(kw, DepartmentFields), today)
               a == [data |-> kw]
           IN  IF ~department_data.ok THEN Rejected("smarthr_create_department", a)
               ELSE \E resp \in Responses :
                        One("smarthr_create_department", a,
                            Request("POST", <<"v1", "departments">>, EmptyDict,
                                    Dict(department_data, TRUE, TRUE)),
                            resp, RaiseOrJson(resp))

smarthr_update_department ==
    /\ pc = "idle"
    /\ \E id \in Ids, kw \in Inputs(DepartmentFields) :
           LET department_data ==
                   Construct("DepartmentUpdateRequest",
                             Keywords(kw, DepartmentFields), today)
               a == [data |-> kw, id |-> id]
           IN  IF ~department_data.ok THEN Rejected("smarthr_update_department", a)
               ELSE \E resp \in Responses :
                        One("smarthr_update_department", a,
                            Request("PUT", <<"v1", "departments", id>>, EmptyDict,
                                    Dict(department_data, FALSE, FALSE)),
                            resp, RaiseOrJson(resp))

smarthr_partial_update_department ==
    /\ pc = "idle"
    /\ \E id \in Ids, kw \in Inputs(DepartmentFields) :
           LET department_data ==
                   Construct("DepartmentPartialUpdateRequest",
                             Keywords(kw, DepartmentFields), today)
               a == [data |-> kw, id |-> id]
           IN  IF ~department_data.ok
               THEN Rejected("smarthr_partial_update_department", a)
               ELSE \E resp \in Responses :
                        One("smarthr_partial_update_department", a,
                            Request("PATCH", <<"v1", "departments", id>>, EmptyDict,
                                    Dict(department_data, TRUE, TRUE)),
                            resp, RaiseOrJson(resp))

smarthr_create_employment_type ==
    /\ pc = "idle"
    /\ \E kw \in Inputs({"name", "code"}) :
           LET employment_type_data ==
                   Construct("EmploymentTypeCreateRequest",
                             Keywords(kw, {"name", "code"}), today)
               a == [data |-> kw]
           IN  IF ~employment_type_data.ok
               THEN Rejected("smarthr_create_employment_type", a)
               ELSE \E resp \in Responses :
                        One("smarthr_create_employment_type", a,
                            Request("POST", <<"v1", "employment_types">>, EmptyDict,
                                    Dict(employment_type_data, TRUE, TRUE)),
                            resp, RaiseOrJson(resp))

smarthr_update_employment_type ==
    /\ pc = "idle"
    /\ \E id \in Ids, kw \in Inputs({"name"}) :
           LET employment_type_data ==
                   Construct("EmploymentTypeUpdateRequest",
                             Keywords(kw, {"name"}), today)
               a == [data |-> kw, id |-> id]
           IN  IF ~employment_type_data.ok
               THEN Rejected("smarthr_update_employment_type", a)
               ELSE \E resp \in Responses :
                        One("smarthr_update_employment_type", a,
                            Request("PUT", <<"v1", "employment_types", id>>, EmptyDict,
                                    Dict(employment_type_data, FALSE, FALSE)),
                            resp, RaiseOrJson(resp))

smarthr_partial_update_employment_type ==
    /\ pc = "idle"
    /\ \E id \in Ids, kw \in Inputs({"name", "code"}) :
           LET employment_type_data ==
                   Construct("EmploymentTypePartialUpdateRequest",
                             Keywords(kw, {"name", "code"}), today)
               a == [data |-> kw, id |-> id]
           IN  IF ~employment_type_data.ok
               THEN Rejected("smarthr_partial_update_employment_type", a)
               ELSE \E resp \in Responses :
                        One("smarthr_partial_update_employment_type", a,
                            Request("PATCH", <<"v1", "employment_types", id>>, EmptyDict,
                                    Dict(employment_type_data, TRUE, TRUE)),
                            resp, RaiseOrJson(resp))

smarthr_create_job_title ==
    /\ pc = "idle"
    /\ \E kw \in Inputs({"name", "rank", "code"}) :
           LET job_title_data ==
                   Construct("JobTitleCreateRequest",
                             Keywords(kw, {"name", "rank", "code"}), today)
               a == [data |-> kw]
           IN  IF ~job_title_data.ok THEN Rejected("smarthr_create_job_title", a)
               ELSE \E resp \in Responses :
                        One("smarthr_create_job_title", a,
                            Request("POST", <<"v1", "job_titles">>, EmptyDict,
                                    Dict(job_title_data, TRUE, TRUE)),
                            resp, RaiseOrJson(resp))

smarthr_update_job_title ==
    /\ pc = "idle"
    /\ \E id \in Ids, kw \in Inputs({"name", "rank"}) :
           LET job_title_data ==
                   Construct("JobTitleUpdateRequest",
                             Keywords(kw, {"name", "rank"}), today)
               a == [data |-> kw, id |-> id]
           IN  IF ~job_title_data.ok THEN Rejected("smarthr_update_job_title", a)
               ELSE \E resp \in Responses :
                        One("smarthr_update_job_title", a,
                            Request("PUT", <<"v1", "job_titles", id>>, EmptyDict,
                                    Dict(job_title_data, FALSE, FALSE)),
                            resp, RaiseOrJson(resp))

smarthr_partial_update_job_title ==
    /\ pc = "idle"
    /\ \E id \in Ids, kw \in Inputs({"name", "rank", "code"}) :
           LET job_title_data ==
                   Construct("JobTitlePartialUpdateRequest",
                             Keywords(kw, {"name", "rank", "code"}), today)
               a == [data |-> kw, id |-> id]
           IN  IF ~job_title_data.ok
               THEN Rejected("smarthr_partial_update_job_title", a)
               ELSE \E resp \in Responses :
                        One("smarthr_partial_update_job_title", a,
                            Request("PATCH", <<"v1", "job_titles", id>>, EmptyDict,
                                    Dict(job_title_data, TRUE, TRUE)),
                            resp, RaiseOrJson(resp))

smarthr_create_grade ==
    /\ pc = "idle"
    /\ \E kw \in Inputs({"name", "rank"}) :
           LET grade_data ==
                   Construct("GradeCreateRequest",
                             Keywords(kw, {"name", "rank"}), today)
               a == [data |-> kw]
           IN  IF ~grade_data.ok THEN Rejected("smarthr_create_grade", a)
               ELSE \E resp \in Responses :
                        One("smarthr_create_grade", a,
                            Request("POST", <<"v1", "grades">>, EmptyDict,
                                    Dict(grade_data, TRUE, TRUE)),
                            resp, RaiseOrJson(resp))

smarthr_update_grade ==
    /\ pc = "idle"
    /\ \E id \in Ids, kw \in Inputs({"name", "rank"}) :
           LET grade_data ==
                   Construct("GradeUpdateRequest",
                             Keywords(kw, {"name", "rank"}), today)
               a == [data |-> kw, id |-> id]
           IN  IF ~grade_data.ok THEN Rejected("smarthr_update_grade", a)
               ELSE \E resp \in Responses :
                        One("smarthr_update_grade", a,
                            Request("PUT", <<"v1", "grades", id>>, EmptyDict,
                                    Dict(grade_data, TRUE, TRUE)),
                            resp, RaiseOrJson(resp))

smarthr_partial_update_grade ==
    /\ pc = "idle"
    /\ \E id \in Ids, kw \in Inputs({"name", "rank"}) :
           LET grade_data ==
                   Construct("GradePartialUpdateRequest",
                             Keywords(kw, {"name", "rank"}), today)
               a == [data |-> kw, id |-> id]
           IN  IF ~grade_data.ok THEN Rejected("smarthr_partial_update_grade", a)
               ELSE \E resp \in Responses :
                        One("smarthr_partial_update_grade", a,
                            Request("PATCH", <<"v1", "grades", id>>, EmptyDict,
                                    Dict(grade_data, TRUE, TRUE)),
                            resp, RaiseOrJson(resp))

smarthr_create_job_category ==
    /\ pc = "idle"
    /\ \E kw \in Inputs({"name"}) :
           LET job_category_data ==
                   Construct("JobCategoryCreateRequest", Keywords(kw, {"name"}), today)
               a == [data |-> kw]
           IN  IF ~job_category_data.ok THEN Rejected("smarthr_create_job_category", a)
               ELSE \E resp \in Responses :
                        One("smarthr_create_job_category", a,
                            Request("POST", <<"v1", "job_categories">>, EmptyDict,
                                    Dict(job_category_data, TRUE, TRUE)),
                            resp, RequestResult(resp))

smarthr_get_crew ==
    /\ pc = "idle"
    /\ \E id \in Ids, resp \in Responses :
           One("smarthr_get_crew", [crew_id |-> id],
               Request("GET", <<"v1", "crews", id>>, EmptyDict, EmptyDict),
               resp, RaiseOrJson(resp))

smarthr_get_department ==
    /\ pc = "idle"
    /\ \E id \in Ids, resp \in Responses :
           One("smarthr_get_department", [id |-> id],
               Request("GET", <<"v1", "departments", id>>, EmptyDict, EmptyDict),
               resp, RaiseOrJson(resp))

smarthr_get_employment_type ==
    /\ pc = "idle"
    /\ \E id \in Ids, resp \in Responses :
           One("smarthr_get_employment_type", [id |-> id],
               Request("GET", <<"v1", "employment_types", id>>, EmptyDict, EmptyDict),
               resp, RaiseOrJson(resp))

smarthr_get_job_title ==
    /\ pc = "idle"
    /\ \E id \in Ids, resp \in Responses :
           One("smarthr_get_job_title", [id |-> id],
               Request("GET", <<"v1", "job_titles", id>>, EmptyDict, EmptyDict),
               resp, RaiseOrJson(resp))

smarthr_get_grade ==
    /\ pc = "idle"
    /\ \E id \in Ids, resp \in Responses :
           One("smarthr_get_grade", [id |-> id],
               Request("GET", <<"v1", "grades", id>>, EmptyDict, EmptyDict),
               resp, RaiseOrJson(resp))

smarthr_get_job_category ==
    /\ pc = "idle"
    /\ \E id \in Ids, resp \in Responses :
           One("smarthr_get_job_category", [id |-> id],
               Request("GET", <<"v1", "job_categories", id>>, EmptyDict, EmptyDict),
               resp, RequestResult(resp))

smarthr_delete_crew ==
    /\ pc = "idle"
    /\ \E id \in Ids, resp \in Responses :
           One("smarthr_delete_crew", [crew_id |-> id],
               Request("DELETE", <<"v1", "crews", id>>, EmptyDict, EmptyDict),
               resp, NoReturn(RaiseOrNone(resp)))

smarthr_delete_employment_type ==
    /\ pc = "idle"
    /\ \E id \in Ids, resp \in Responses :
           One("smarthr_delete_employment_type", [id |-> id],
               Request("DELETE", <<"v1", "employment_types", id>>, EmptyDict, EmptyDict),
               resp, NoReturn(RaiseOrNone(resp)))

smarthr_delete_grade ==
    /\ pc = "idle"
    /\ \E id \in Ids, resp \in Responses :
           One("smarthr_delete_grade", [id |-> id],
               Request("DELETE", <<"v1", "grades", id>>, EmptyDict, EmptyDict),
               resp,
               NoReturn(IF TransportFailed(resp)
                        THEN Raise("ConnectionError", NoResponse)
                        ELSE Return(PyNone)))

\* a constructed request model, as a returned value
ModelInstance == [doc |-> NoDoc, message |-> "", status |-> 0, type |-> "model"]

\* a ValidationError carrying the reason its validator raised
RaiseReason(exc, reason) ==
    [exc |-> exc, kind |-> "raise", resp |-> NoResponse,
     value |-> [doc |-> NoDoc, message |-> reason, status |-> 0, type |-> "errors"]]

\* DepartmentDiscontinueRequest(discontinued_date=...) built by a caller of
\* the module, outside discontinue_department
DepartmentDiscontinueRequest_init ==
    /\ pc = "idle"
    /\ \E chars \in DateInputs :
           LET data == [discontinued_date |-> Str(chars)]
               self == Construct("DepartmentDiscontinueRequest", data, today)
           IN  Invoke("DepartmentDiscontinueRequest", data, <<>>, <<>>,
                      IF self.ok THEN Return(ModelInstance)
                      ELSE RaiseReason("ValidationError",
                                       self.errors.discontinued_date))

Next ==
    \/ Startup
    \/ Complete
    \/ Tick
    \/ list_grades
    \/ create_grade
    \/ get_grade
    \/ update_grade
    \/ partial_update_grade
    \/ delete_grade
    \/ create_crew
    \/ get_crew
    \/ update_crew
    \/ list_crews
    \/ search_crews
    \/ invite_crew
    \/ delete_crew
    \/ partial_update_department
    \/ update_department
    \/ get_department
    \/ list_departments
    \/ create_department
    \/ discontinue_department
    \/ list_employment_types
    \/ create_employment_type
    \/ get_employment_type
    \/ update_employment_type
    \/ partial_update_employment_type
    \/ delete_employment_type
    \/ list_job_titles
    \/ create_job_title
    \/ get_job_title
    \/ update_job_title
    \/ partial_update_job_title
    \/ delete_job_title
    \/ list_job_categories
    \/ create_job_category
    \/ get_job_category
    \/ list_dependents
    \/ create_dependent
    \/ get_dependent
    \/ update_dependent
    \/ partial_update_dependent
    \/ delete_dependent
    \/ list_relations
    \/ smarthr_partial_update_job_category
    \/ smarthr_list_crews
    \/ smarthr_search_crews
    \/ smarthr_list_departments
    \/ smarthr_list_employment_types
    \/ smarthr_list_job_titles
    \/ smarthr_list_grades
    \/ smarthr_list_job_categories
    \/ smarthr_list_dependents
    \/ smarthr_list_relations
    \/ DepartmentDiscontinueRequest_init
    \/ smarthr_create_dependent
    \/ smarthr_create_crew
    \/ smarthr_update_crew
    \/ smarthr_invite_crew
    \/ smarthr_discontinue_department
    \/ smarthr_delete_job_title
    \/ smarthr_update_job_category
    \/ smarthr_delete_job_category
    \/ smarthr_get_dependent
    \/ smarthr_update_dependent
    \/ smarthr_partial_update_dependent
    \/ smarthr_delete_dependent
    \/ smarthr_read_crew_profiles
    \/ smarthr_create_department
    \/ smarthr_update_department
    \/ smarthr_partial_update_department
    \/ smarthr_create_employment_type
    \/ smarthr_update_employment_type
    \/ smarthr_partial_update_employment_type
    \/ smarthr_create_job_title
    \/ smarthr_update_job_title
    \/ smarthr_partial_update_job_title
    \/ smarthr_create_grade
    \/ smarthr_update_grade
    \/ smarthr_partial_update_grade
    \/ smarthr_create_job_category
    \/ smarthr_get_crew
    \/ smarthr_get_department
    \/ smarthr_get_employment_type
    \/ smarthr_get_job_title
    \/ smarthr_get_grade
    \/ smarthr_get_job_category
    \/ smarthr_delete_crew
    \/ smarthr_delete_employment_type
    \/ smarthr_delete_grade

Spec == Init /\ [][Next]_vars

(***************************************************************************)
(* Properties.                                                             *)
(***************************************************************************)
Done == pc = "done"

\* the methods of SmartHRClient
ClientOps ==
    {"create_crew", "get_crew", "update_crew", "list_crews", "search_crews",
     "invite_crew", "delete_crew", "partial_update_department",
     "update_department", "get_department", "list_departments",
     "create_department", "discontinue_department", "list_employment_types",
     "create_employment_type", "get_employment_type", "update_employment_type",
     "partial_update_employment_type", "delete_employment_type",
     "list_job_titles", "create_job_title", "get_job_title", "update_job_title",
     "partial_update_job_title", "delete_job_title", "list_grades",
     "create_grade", "get_grade", "update_grade", "partial_update_grade",
     "delete_grade", "list_job_categories", "create_job_category",
     "get_job_category", "list_dependents", "create_dependent", "get_dependent",
     "update_dependent", "partial_update_dependent", "delete_dependent",
     "list_relations"}

SixRequired ==
    {"last_name", "first_name", "birth_at", "gender", "live_together_type",
     "relation_id"}

\* the outcome is a failure raised before any request: by the model's
\* construction or by a pre-flight check
LocallyRejected ==
    outcome.kind = "raise" /\ outcome.exc \in {"ValidationError", "ValueError"}

Is2xx(resp) == resp.kind # "transport" /\ 200 <= resp.status /\ resp.status < 300

\* the date argument of discontinue_department, parsed
DiscontinueDate == Strptime(args.discontinued_date.str)

\* C1: discontinue_department sends no request and ends in an error whenever
\* discontinued_date does not parse as a YYYY-MM-DD date or is today or later.
C1_DiscontinueRejectsBeforeRequest ==
    (Done /\ op = "discontinue_department"
          /\ (DiscontinueDate = NoDate \/ DiscontinueDate >= today))
    => (sent = <<>> /\ outcome.kind = "raise")

\* a call with today's own date was rejected without a request
C1_Witness ==
    /\ Done /\ op = "discontinue_department"
    /\ DiscontinueDate = today
    /\ sent = <<>> /\ outcome.kind = "raise"

\* C2: for a date that parses and is strictly before today,
\* discontinue_department passes the pre-flight check and the model's
\* validation and sends exactly one request: POST
\* /v1/departments/{id}/discontinue with that discontinued_date as its body.
C2_DiscontinuePastDatePosts ==
    (Done /\ op = "discontinue_department"
          /\ DiscontinueDate # NoDate /\ DiscontinueDate < today)
    => /\ Len(sent) = 1
       /\ sent[1].method = "POST"
       /\ sent[1].path = <<"v1", "departments", args.id, "discontinue">>
       /\ DOMAIN sent[1].json = {"discontinued_date"}
       /\ sent[1].json["discontinued_date"] = args.discontinued_date

\* yesterday's date was posted
C2_Witness ==
    /\ Done /\ op = "discontinue_department"
    /\ DiscontinueDate = today - 1
    /\ Len(sent) = 1 /\ sent[1].method = "POST"

\* C3: partial_update_dependent with one of the six required fields absent
\* or empty fails, at the model's construction or at the
\* has_required_patch_fields check, and sends no request.
C3_PartialDependentNeedsSix ==
    (Done /\ op = "partial_update_dependent"
          /\ \E f \in SixRequired :
                 f \notin DOMAIN args.data \/ ~Truthy(args.data[f]))
    => (sent = <<>> /\ LocallyRejected)

\* all six were supplied, one of them empty, and the completeness check
\* stopped the call
C3_Witness ==
    /\ Done /\ op = "partial_update_dependent"
    /\ SixRequired \subseteq DOMAIN args.data
    /\ args.data["last_name"] = Str(<<>>)
    /\ sent = <<>> /\ outcome.exc = "ValueError"

\* C4: partial_update_dependent given a model with all six required fields
\* non-empty sends exactly one request, PATCH
\* /v1/crews/{crew_id}/dependents/{id}, whose body holds exactly the fields
\* the caller set to a non-null value, each with the caller's value.
C4_PartialDependentPatchBody ==
    (Done /\ op = "partial_update_dependent"
          /\ Construct("DependentPartialUpdateRequest", args.data, today).ok
          /\ \A f \in SixRequired : Truthy(args.data[f]))
    => /\ Len(sent) = 1
       /\ sent[1].method = "PATCH"
       /\ sent[1].path = <<"v1", "crews", args.crew_id, "dependents", args.id>>
       /\ DOMAIN sent[1].json =
              {f \in DOMAIN args.data : args.data[f].type # "none"}
       /\ \A f \in DOMAIN sent[1].json : sent[1].json[f] = args.data[f]

\* a PATCH went out for a dict that also sets an optional field to None
C4_Witness ==
    /\ Done /\ op = "partial_update_dependent"
    /\ "job" \in DOMAIN args.data /\ args.data["job"] = None_
    /\ Len(sent) = 1 /\ sent[1].method = "PATCH"
    /\ "job" \notin DOMAIN sent[1].json

\* C5: every client operation whose inputs pass the local validation sends
\* exactly one HTTP request per invocation.
C5_ExactlyOneRequest ==
    (Done /\ op \in ClientOps /\ ~LocallyRejected) => Len(sent) = 1

DeleteOps ==
    {"delete_crew", "delete_job_title", "delete_employment_type", "delete_grade",
     "delete_dependent"}

\* C6: a delete operation whose DELETE is answered 204 returns the no-content
\* marker {status: 204, message: "No Content"}.
C6_DeleteReturnsMarkerOn204 ==
    (Done /\ op \in DeleteOps /\ Len(got) >= 1
          /\ got[1].kind # "transport" /\ got[1].status = 204)
    => outcome = Return(StatusDict(204, "No Content"))

\* C7: a response whose status is neither 2xx nor 204 ends the operation in
\* an HTTPError that carries that response.
C7_HTTPErrorOnFailureStatus ==
    (Done /\ op \in ClientOps) => \A i \in DOMAIN got :
                (got[i].kind # "transport" /\ ~Is2xx(got[i]))
                => (/\ outcome.kind = "raise"
                    /\ outcome.exc = "HTTPError"
                    /\ outcome.resp = got[i])

GetOps ==
    {"get_crew", "get_department", "get_employment_type", "get_job_title",
     "get_grade", "get_job_category", "get_dependent"}

\* C8: a get operation answered 404 raises an HTTPError that carries the
\* response (status 404 and its body); it returns nothing.
C8_GetRaisesOn404 ==
    (Done /\ op \in GetOps /\ Len(got) = 1 /\ got[1].status = 404)
    => (/\ outcome.kind = "raise"
        /\ outcome.exc = "HTTPError"
        /\ outcome.resp = got[1])

\* get_grade was answered 404 with a text body and raised
C8_Witness ==
    /\ Done /\ op = "get_grade" /\ Len(got) = 1
    /\ got[1].status = 404 /\ got[1].kind = "text"
    /\ outcome.exc = "HTTPError"

\* C9: an operation whose (last) response is a success returns the decoded
\* JSON body when there is one and the no-payload marker when there is no
\* content; an operation that returns never returns None.
C9_SuccessReturnsBodyOrMarker ==
    (Done /\ op \in ClientOps) =>
        /\ (outcome.kind = "return" => outcome.value.type # "None")
        /\ (Len(got) >= 1 /\ Is2xx(got[Len(got)]))
           => (/\ got[Len(got)].kind = "json"
                  => outcome = Return(Json(got[Len(got)].doc))
               /\ got[Len(got)].kind = "empty"
                  => (outcome.kind = "return" /\ outcome.value.type = "status"))

RankOps ==
    {"create_job_title", "update_job_title", "partial_update_job_title",
     "create_grade", "update_grade", "partial_update_grade"}

\* the fields other than rank are acceptable to the model of the operation
OtherFieldsValid ==
    IF op \in {"partial_update_job_title", "partial_update_grade"} THEN TRUE
    ELSE "name" \in DOMAIN args.data /\ args.data["name"].type = "str"

\* C10: each of the six JobTitle/Grade models rejects an integer rank below
\* 1 or above 99999 and accepts every rank from 1 to 99999, bounds included.
C10_RankRange ==
    (Done /\ op \in RankOps /\ "rank" \in DOMAIN args.data
          /\ args.data["rank"].type = "int")
    => /\ (args.data["rank"].num < 1 \/ args.data["rank"].num > 99999)
          => (outcome.exc = "ValidationError" /\ sent = <<>>)
       /\ (1 <= args.data["rank"].num /\ args.data["rank"].num <= 99999
           /\ OtherFieldsValid)
          => outcome.exc # "ValidationError"

\* update_grade took the rank 99999 and the request went out
C10_Witness ==
    /\ Done /\ op = "update_grade"
    /\ "rank" \in DOMAIN args.data /\ args.data["rank"] = Num(99999)
    /\ Len(sent) = 1

\* the request model the operation in op is given
ModelOf ==
    CASE op = "create_crew" -> "CrewCreateRequest"
      [] op = "update_crew" -> "CrewUpdateRequest"
      [] op = "create_department" -> "DepartmentCreateRequest"
      [] op = "update_department" -> "DepartmentUpdateRequest"
      [] op = "partial_update_department" -> "DepartmentPartialUpdateRequest"
      [] op = "create_employment_type" -> "EmploymentTypeCreateRequest"
      [] op = "update_employment_type" -> "EmploymentTypeUpdateRequest"
      [] op = "partial_update_employment_type" -> "EmploymentTypePartialUpdateRequest"
      [] op = "create_job_title" -> "JobTitleCreateRequest"
      [] op = "update_job_title" -> "JobTitleUpdateRequest"
      [] op = "partial_update_job_title" -> "JobTitlePartialUpdateRequest"
      [] op = "create_grade" -> "GradeCreateRequest"
      [] op = "update_grade" -> "GradeUpdateRequest"
      [] op = "partial_update_grade" -> "GradePartialUpdateRequest"
      [] op = "create_job_category" -> "JobCategoryCreateRequest"
      [] op = "create_dependent" -> "DependentCreateRequest"
      [] op = "update_dependent" -> "DependentUpdateRequest"
      [] op = "partial_update_dependent" -> "DependentPartialUpdateRequest"
      [] op = "smarthr_partial_update_job_category" ->
             "JobCategoryPartialUpdateRequest"
      [] OTHER -> "none"

\* every field of the caller's dict but f is acceptable to the model
OthersValid(f) ==
    \A g \in Fields(ModelOf) \ {f} : FieldError(ModelOf, args.data, g, today) = ""

DepartmentOps ==
    {"create_department", "update_department", "partial_update_department"}

\* C11: the three department models reject every supplied name that
\* contains '/' and accept every name without '/', the other fields being
\* valid.
C11_DepartmentNameSlash ==
    (Done /\ op \in DepartmentOps /\ "name" \in DOMAIN args.data
          /\ args.data["name"].type = "str")
    => /\ Contains(args.data["name"], "/")
          => (outcome.exc = "ValidationError" /\ sent = <<>>)
       /\ (~Contains(args.data["name"], "/") /\ OthersValid("name"))
          => outcome.exc # "ValidationError"

\* a partial update whose name holds a '/' was rejected
C11_Witness ==
    /\ Done /\ op = "partial_update_department"
    /\ "name" \in DOMAIN args.data /\ args.data["name"] = Str(Slashed)
    /\ outcome.exc = "ValidationError" /\ sent = <<>>

\* C12: with the other fields valid, DependentCreateRequest is constructed
\* if and only if gender is exactly "male" or "female".
C12_DependentGender ==
    (Done /\ op = "create_dependent" /\ OthersValid("gender"))
    => (outcome.exc # "ValidationError"
        <=> (/\ "gender" \in DOMAIN args.data
             /\ args.data["gender"].type = "str"
             /\ args.data["gender"].str \in {Male, Female}))

\* a dependent with gender "female" was created; the request went out
C12_Witness ==
    /\ Done /\ op = "create_dependent"
    /\ "gender" \in DOMAIN args.data /\ args.data["gender"] = Str(Female)
    /\ Len(sent) = 1

PartialOps ==
    {"partial_update_department", "partial_update_employment_type",
     "partial_update_job_title", "partial_update_grade",
     "partial_update_dependent"}

\* the create model of the resource a partial-update operation works on
CreateModelOf ==
    CASE op = "partial_update_department" -> "DepartmentCreateRequest"
      [] op = "partial_update_employment_type" -> "EmploymentTypeCreateRequest"
      [] op = "partial_update_job_title" -> "JobTitleCreateRequest"
      [] op = "partial_update_grade" -> "GradeCreateRequest"
      [] op = "partial_update_dependent" -> "DependentCreateRequest"
      [] OTHER -> "none"

\* C13: a value the create model's validator rejects for a field is rejected
\* for the partial update of the same resource too when it is supplied for
\* that field: the call fails on validation and nothing is sent.
C13_PartialKeepsCreateValidators ==
    (Done /\ op \in PartialOps)
    => \A f \in DOMAIN args.data :
           (/\ args.data[f].type # "none"
            /\ TypeOk(CreateModelOf, f, args.data[f])
            /\ Validator(CreateModelOf, f, args.data[f], today) # "")
           => (LocallyRejected /\ sent = <<>>)

\* the operations that take a partial-update model
PartialModelOps == PartialOps \cup {"smarthr_partial_update_job_category"}

\* every supplied field holds a value of its declared type that the
\* field's validator accepts
SuppliedValid ==
    \A f \in DOMAIN args.data :
        /\ args.data[f].type # "none"
        /\ TypeOk(ModelOf, f, args.data[f])
        /\ Validator(ModelOf, f, args.data[f], today) = ""

\* C14 as stated: every partial-update model is constructed from any subset
\* of its fields, the empty one included.
C14_PartialModelsAllOptional ==
    (Done /\ op \in PartialModelOps /\ SuppliedValid)
    => outcome.exc # "ValidationError"

\* C14, amended: the Department, EmploymentType, JobTitle, Grade and
\* JobCategory partial-update models are constructed from any subset of
\* their fields (None included), the empty one included;
\* DependentPartialUpdateRequest is not constructed unless its six required
\* fields are all supplied.
C14_PartialModelsOptionalButDependent ==
    /\ (Done /\ op \in PartialModelOps \ {"partial_update_dependent"}
             /\ \A f \in DOMAIN args.data :
                    FieldError(ModelOf, args.data, f, today) = "")
       => outcome.exc # "ValidationError"
    /\ (Done /\ op = "partial_update_dependent"
             /\ \E f \in SixRequired :
                    f \notin DOMAIN args.data \/ args.data[f].type = "none")
       => (outcome.exc = "ValidationError" /\ sent = <<>>)

\* a grade was patched with no field at all: the model was built and the
\* request went out with an empty body
C14_Witness ==
    /\ Done /\ op = "partial_update_grade"
    /\ DOMAIN args.data = {}
    /\ Len(sent) = 1 /\ DOMAIN sent[1].json = {}

CreateOps ==
    {"create_crew", "create_department", "create_employment_type",
     "create_job_title", "create_grade", "create_job_category",
     "create_dependent"}

\* C15: the JSON body of a create operation holds exactly the fields the
\* caller set to a non-null value, each with the caller's value; a field
\* left unset, whatever its default, and a field set to None are not in it.
C15_CreateBodyExplicitNonNull ==
    (Done /\ op \in CreateOps /\ Len(sent) >= 1)
    => /\ DOMAIN sent[1].json =
              {f \in DOMAIN args.data : args.data[f].type # "none"}
       /\ \A f \in DOMAIN sent[1].json \cap DOMAIN args.data :
              sent[1].json[f] = args.data[f]

PutOps ==
    {"update_department", "update_employment_type", "update_job_title",
     "update_grade", "update_dependent"}

\* C16: the JSON body of a full-update (PUT) operation holds every declared
\* field of the update model: the caller's value for a field set to a
\* non-null value, null for a field left unset or set to None.
C16_PutBodyEveryField ==
    (Done /\ op \in PutOps /\ Len(sent) >= 1)
    => /\ DOMAIN sent[1].json = Fields(ModelOf)
       /\ \A f \in DOMAIN sent[1].json :
              sent[1].json[f] =
                  IF f \in DOMAIN args.data THEN args.data[f] ELSE None_

QueryOps ==
    {"get_crew", "list_crews", "search_crews", "list_departments",
     "list_job_titles", "list_grades", "list_job_categories", "list_dependents"}

OptionalParams ==
    {"fields", "emp_code", "department_id", "extra", "code", "sort",
     "prefer_business_name"}

\* C17: an optional query parameter of a list/get/search operation is in the
\* request's query string if and only if the caller supplied a non-null
\* value for it, the empty string included.
C17_QueryParamsIffNonNull ==
    (Done /\ op \in QueryOps /\ Len(sent) >= 1)
    => \A k \in OptionalParams :
           k \in DOMAIN QueryString(sent[1])
           <=> (k \in DOMAIN args.kw /\ args.kw[k].type # "none")

ListOps ==
    {"list_crews", "search_crews", "list_departments", "list_employment_types",
     "list_job_titles", "list_grades", "list_job_categories", "list_dependents",
     "list_relations"}

ListTools ==
    {"smarthr_list_crews", "smarthr_search_crews", "smarthr_list_departments",
     "smarthr_list_employment_types", "smarthr_list_job_titles",
     "smarthr_list_grades", "smarthr_list_job_categories",
     "smarthr_list_dependents", "smarthr_list_relations"}

\* C18: a list operation of the client or of the tool layer called without
\* page and per_page sends a request with page=1 and per_page=10.
C18_ListDefaults ==
    (Done /\ op \in ListOps \cup ListTools
          /\ "page" \notin DOMAIN args.kw /\ "per_page" \notin DOMAIN args.kw
          /\ ("env" \in DOMAIN args => SmartHRClient_init(args.env).ok))
    => /\ Len(sent) = 1
       /\ sent[1].params["page"] = Num(1)
       /\ sent[1].params["per_page"] = Num(10)

\* C19: when the remote answers list_dependents with the body
\* {"dependents": []}, the operation returns a dict that holds a message
\* and an empty dependents list; it neither raises nor returns the body or a
\* bare list.
C19_NoDependentsMessage ==
    (Done /\ op = "list_dependents" /\ Len(got) = 1 /\ Is2xx(got[1])
          /\ got[1].kind = "json" /\ got[1].doc = DocNoDependents)
    => /\ outcome.kind = "return"
       /\ outcome.value.type = "message"
       /\ outcome.value.message = NoDependentsMessage
       /\ outcome.value.doc.type = "dict"
       /\ outcome.value.doc.keys = {"message", "dependents"}
       /\ outcome.value.doc.dependents = "empty"

\* the remote answered {"dependents": []} and the message came back
C19_Witness ==
    /\ Done /\ op = "list_dependents" /\ Len(got) = 1
    /\ got[1] = Response(200, "json", DocNoDependents)
    /\ outcome.kind = "return" /\ outcome.value.type = "message"

\* a client was built while the operation in op ran, from the environment
\* recorded in args
BuildsClient == op # "startup" /\ "env" \in DOMAIN args

\* C20: SmartHRClient() fails at once when SMARTHR_API_KEY is missing or
\* empty, so that no client exists without a credential and no request goes
\* out without one; the failure happens when the server is loaded, never
\* during a tool call, where it would be raised late or turned into the
\* tool's result; without SMARTHR_API_BASE_URL the default base URL is used.
C20_CredentialAtConstruction ==
    /\ smarthr_client # NoClient => Truthy(smarthr_client.api_key)
    /\ \A i \in DOMAIN sent :
           sent[i].headers.authorization = Str(<<"Bearer ">> \o ApiKey.str)
    /\ (op = "startup" /\ ~Truthy(Getenv(args.env.api_key, None_)))
       => (pc = "failed" /\ outcome.kind = "raise" /\ smarthr_client = NoClient)
    /\ (op = "startup" /\ pc = "done" /\ args.env.base_url = Absent)
       => smarthr_client.base_url = DefaultBaseUrl
    /\ (Done /\ BuildsClient) => SmartHRClient_init(args.env).ok

(***************************************************************************)
(* The tools that build a request model, and what they build it from.      *)
(***************************************************************************)
\* the model class each model-building tool names
ToolModels ==
    [smarthr_create_crew |-> "CrewCreateRequest",
     smarthr_create_department |-> "DepartmentCreateRequest",
     smarthr_create_dependent |-> "DependentCreateRequest",
     smarthr_create_employment_type |-> "EmploymentTypeCreateRequest",
     smarthr_create_grade |-> "GradeCreateRequest",
     smarthr_create_job_category |-> "JobCategoryCreateRequest",
     smarthr_create_job_title |-> "JobTitleCreateRequest",
     smarthr_partial_update_department |-> "DepartmentPartialUpdateRequest",
     smarthr_partial_update_dependent |-> "DependentPartialUpdateRequest",
     smarthr_partial_update_employment_type |->
         "EmploymentTypePartialUpdateRequest",
     smarthr_partial_update_grade |-> "GradePartialUpdateRequest",
     smarthr_partial_update_job_category |-> "JobCategoryPartialUpdateRequest",
     smarthr_partial_update_job_title |-> "JobTitlePartialUpdateRequest",
     smarthr_update_crew |-> "CrewUpdateRequest",
     smarthr_update_department |-> "DepartmentUpdateRequest",
     smarthr_update_dependent |-> "DependentUpdateRequest",
     smarthr_update_employment_type |-> "EmploymentTypeUpdateRequest",
     smarthr_update_grade |-> "GradeUpdateRequest",
     smarthr_update_job_category |-> "JobCategoryUpdateRequest",
     smarthr_update_job_title |-> "JobTitleUpdateRequest"]

ModelTools == DOMAIN ToolModels

\* the tools that take the model's fields as one dict and pass it as **data
DictTools ==
    {"smarthr_create_crew", "smarthr_update_crew", "smarthr_create_dependent",
     "smarthr_update_dependent", "smarthr_partial_update_dependent"}

\* what the model of the finished tool call is constructed from
ToolData ==
    IF op \in DictTools THEN args.data
    ELSE Keywords(args.data, Fields(ToolModels[op]))

\* the caller's input violates a declared constraint of the tool's model
ToolInputInvalid ==
    /\ op \in ModelTools
    /\ ~Construct(ToolModels[op], ToolData, today).ok

\* the call ended with a validation error: raised, or reported in the dict
\* smarthr_create_dependent returns from its except clause
EndedWithValidationError ==
    \/ outcome.kind = "raise" /\ outcome.exc = "ValidationError"
    \/ /\ op = "smarthr_create_dependent"
       /\ outcome = Return(ErrorDict(ValidationErrorMessage))

\* C21: every tool that builds a request model ends a call whose input
\* violates a declared constraint of that model with a validation error,
\* without any HTTP request
C21_ToolRejectsInvalidInput ==
    (Done /\ ToolInputInvalid) => (EndedWithValidationError /\ sent = <<>>)

\* the date-valued fields of the crew models (among CrewFields)
CrewDateFields == {"birth_at", "emp_ins_qualified_at"}

\* the caller's crew dict has a date-valued field that is present, not None
\* and does not parse as YYYY-MM-DD
CrewDateUnparsable ==
    \E f \in CrewDateFields \cap DOMAIN args.data :
        /\ args.data[f].type = "str"
        /\ Strptime(args.data[f].str) = NoDate

\* C22: CrewCreateRequest and CrewUpdateRequest fail to construct when any
\* date-valued field is present with a value that does not parse as
\* YYYY-MM-DD, so the crew operation ends with a validation error and no
\* request
C22_CrewDatesValidated ==
    (Done /\ op \in {"create_crew", "update_crew"} /\ CrewDateUnparsable)
        => (outcome.kind = "raise" /\ outcome.exc = "ValidationError"
            /\ sent = <<>>)

\* the date given to DepartmentDiscontinueRequest, as an ordinal (NoDate when
\* it does not parse)
ModelDate == Strptime(args.discontinued_date.str)

\* C23: DepartmentDiscontinueRequest accepts discontinued_date exactly when
\* it parses as YYYY-MM-DD and is strictly before the current date; the
\* current date itself and every later date are rejected by the model
C23_DiscontinueModelStrictlyPast ==
    (Done /\ op = "DepartmentDiscontinueRequest")
        => (outcome.kind = "return" <=> (ModelDate # NoDate /\ ModelDate < today))

\* C30: DepartmentDiscontinueRequest reports a rejected date with the
\* matching reason: a well-formed date that is not in the past is rejected
\* with the past-dates-only reason, and only a date that does not parse is
\* rejected with the format reason
C30_DiscontinueModelReason ==
    (Done /\ op = "DepartmentDiscontinueRequest" /\ outcome.kind = "raise")
        => outcome.value.message =
               (IF ModelDate = NoDate THEN "format" ELSE "past_only")

\* something went wrong in the finished call: a request failed in transport
\* or was answered with an HTTP error status, the input did not satisfy the
\* request model, or the client the call built found no API key
ErrorOccurred ==
    \/ \E i \in DOMAIN got : TransportFailed(got[i]) \/ RaisesForStatus(got[i])
    \/ ToolInputInvalid
    \/ /\ op \in ClientOps
       /\ ModelOf # "none"
       /\ ~Construct(ModelOf, args.data, today).ok
    \/ /\ op # "startup"
       /\ "env" \in DOMAIN args
       /\ ~SmartHRClient_init(args.env).ok

\* C24: every error (validation, HTTP, transport, configuration) reaches the
\* immediate caller as a raised failure: no client operation and no tool
\* ends a call in which an error occurred with a normal return
C24_ErrorsAreRaised ==
    (Done /\ ErrorOccurred) => outcome.kind = "raise"

RegisteredTools ==
    {"smarthr_create_crew", "smarthr_get_crew", "smarthr_update_crew",
     "smarthr_list_crews", "smarthr_search_crews", "smarthr_delete_crew",
     "smarthr_invite_crew", "smarthr_create_department",
     "smarthr_list_departments", "smarthr_get_department",
     "smarthr_update_department", "smarthr_partial_update_department",
     "smarthr_discontinue_department", "smarthr_list_employment_types",
     "smarthr_create_employment_type", "smarthr_get_employment_type",
     "smarthr_update_employment_type", "smarthr_partial_update_employment_type",
     "smarthr_delete_employment_type", "smarthr_list_job_titles",
     "smarthr_create_job_title", "smarthr_get_job_title",
     "smarthr_update_job_title", "smarthr_partial_update_job_title",
     "smarthr_delete_job_title", "smarthr_list_grades", "smarthr_create_grade",
     "smarthr_get_grade", "smarthr_update_grade", "smarthr_partial_update_grade",
     "smarthr_delete_grade", "smarthr_list_job_categories",
     "smarthr_create_job_category", "smarthr_get_job_category",
     "smarthr_update_job_category", "smarthr_partial_update_job_category",
     "smarthr_delete_job_category", "smarthr_list_dependents",
     "smarthr_create_dependent", "smarthr_get_dependent",
     "smarthr_update_dependent", "smarthr_partial_update_dependent",
     "smarthr_delete_dependent", "smarthr_list_relations"}

\* the finished call is a tool call whose input its model accepts, that no
\* check on that input rejected, and whose client (if it built one) has a key
ToolInputValid ==
    /\ op \in RegisteredTools
    /\ ~ToolInputInvalid
    /\ ~(outcome.kind = "raise" /\ outcome.exc \in {"ValueError", "ValidationError"})
    /\ BuildsClient => SmartHRClient_init(args.env).ok

\* C26: every registered tool, given valid input, reaches one existing
\* client operation and sends exactly one HTTP request; no tool fails before
\* the request because the client operation or the model it names is not
\* defined
C26_ToolReachesOneRequest ==
    (Done /\ ToolInputValid)
        => (Len(sent) = 1 /\ outcome.exc \notin {"AttributeError", "NameError"})

\* the client the finished call ran on: the one the tool built from the
\* environment of that moment, or the module's
ClientOfCall == IF BuildsClient THEN SmartHRClient_init(args.env) ELSE smarthr_client

\* C27: every HTTP request carries Authorization: Bearer <key> with the key
\* its client read when it was constructed, and goes to the base URL that
\* client read at construction, whatever the environment is at the time of
\* the call
C27_RequestsUseConstructionValues ==
    \A i \in DOMAIN sent :
        /\ sent[i].headers.authorization =
               Str(<<"Bearer ">> \o ClientOfCall.api_key.str)
        /\ sent[i].base_url = ClientOfCall.base_url

\* a method of the module's client sent a request to the base URL the
\* environment named when the client was constructed
C27_Witness ==
    /\ Done
    /\ op \in ClientOps
    /\ sent # <<>>
    /\ sent[1].base_url = OtherBaseUrl
    /\ sent[1].headers.authorization = Str(<<"Bearer ">> \o ApiKey.str)

\* the list, get and search operations of the client, and the others
\* (create, update, partial update, delete, invite, discontinue)
ReadOps == ListOps \cup GetOps
WriteOps == ClientOps \ ReadOps

\* C28: a list, get or search operation sends only GET requests; a create,
\* update, partial-update, delete, invite or discontinue operation sends no
\* GET request
C28_MethodMatchesOperation ==
    Done => \A i \in DOMAIN sent :
                /\ op \in ReadOps => sent[i].method = "GET"
                /\ op \in WriteOps => sent[i].method # "GET"

\* what _request returned to list_dependents in the finished call
Decoded == RequestResult(got[1])

\* C29: list_dependents returns what _request returned, unchanged, unless
\* that is a dict whose "dependents" is an empty list (so a non-empty list,
\* a dict without the key and a bare list all pass through); when it does
\* normalise, the result has the keys message and dependents and no other
C29_ListDependentsPassThrough ==
    (Done /\ op = "list_dependents" /\ Len(got) = 1 /\ Decoded.kind = "return")
        => IF /\ Decoded.value.type = "json"
              /\ Decoded.value.doc.type = "dict"
              /\ Decoded.value.doc.dependents = "empty"
           THEN /\ outcome.kind = "return"
                /\ outcome.value.type = "message"
                /\ outcome.value.doc.keys = {"message", "dependents"}
           ELSE outcome = Decoded

\* a dict without the key "dependents" came back as it was decoded
C29_Witness ==
    /\ Done /\ op = "list_dependents" /\ Len(got) = 1
    /\ got[1] = Response(200, "json", DocObject)
    /\ outcome = Return(Json(DocObject))

====
